---------------------------- MODULE Spec2Model ----------------------------
(***************************************************************************)
(* Multi-source shelter lookup of shelter_bot.py: the four connectors      *)
(* (municipal ArcGIS, GovMap, Overpass/OSM, Tel-Aviv ArcGIS), the          *)
(* deduplication and the radius-expansion loop of fetch_shelters.          *)
(*                                                                         *)
(* Coordinates are integers: lat is metres of arc from the equator, lon is *)
(* metres east along the parallel of the query area, so that the           *)
(* great-circle distance of two points a few kilometres apart is their     *)
(* planar distance in metres (exact along a meridian).  A coordinate a     *)
(* JSON response may carry is a positive integer, 0, NoneV (null), StrV (a *)
(* non-numeric value such as the string "NaN") or AbsentV (no such key).   *)
(* Records keep the fields the pipeline reads: id, lat, lon, distance and  *)
(* source; ids are triples << prefix, sub-key, raw id >>.                  *)
(***************************************************************************)
EXTENDS Integers, Sequences, FiniteSets, TLC

\* ------------------------------------------------------------ bounds ----
MaxLen == 3          \* longest input list of the deduplication harness
MaxQueries == 2      \* queries one process run serves in the model

\* ------------------------------------------------- program constants ----
SEARCH_RADIUS_M == 2000
MAX_RESULTS == 5
DEDUP_THRESHOLD_M == 50
WIDE_RADIUS_M == 5000
GOV_BASE_EXTRA_M == 1000
ONE_DEGREE == 111195            \* metres of arc in one degree of latitude

NoneV == -1                     \* JSON null / Python None
StrV == -2                      \* a non-numeric value (a string)
AbsentV == -3                   \* the key is not in the mapping
EmptyV == -4                    \* the empty string

\* TA_BOUNDS, degrees converted to metres (lat * 111195, lon * 94208)
TA_BOUNDS == [lat_min |-> 3561576, lat_max |-> 3574919,
              lon_min |-> 3272786, lon_max |-> 3280323]

\* -------------------------------------------------------- geometry ------

Min(S) == CHOOSE m \in S : \A n \in S : m <= n

\* mutant: only the way north and east counts
SqDistOneWay(lat1, lon1, lat2, lon2) ==
    LET cap(d) == IF d > 30000 THEN 30000 ELSE IF d < 0 THEN 0 ELSE d
        dlat == cap(lat2 - lat1)
        dlon == cap(lon2 - lon1)
    IN dlat * dlat + dlon * dlon

\* the square of the distance in metres.  A difference beyond 30 km on an
\* axis counts as 30 km: every radius and threshold of the program is at
\* most 5000 m, and the squares stay within the integers.
SqDist(lat1, lon1, lat2, lon2) ==
    LET cap(d) == IF d > 30000 THEN 30000 ELSE IF d < -30000 THEN -30000 ELSE d
        dlat == cap(lat2 - lat1)
        dlon == cap(lon2 - lon1)
    IN dlat * dlat + dlon * dlon

\* is every argument a number (math.radians raises TypeError otherwise)
IsNum(v) == v >= 0

HaversineLeq(lat1, lon1, lat2, lon2, m) == SqDist(lat1, lon1, lat2, lon2) <= m * m

RECURSIVE RoundSqrtFrom(_, _, _)
RoundSqrtFrom(n, lo, hi) ==
    \* the r in lo..hi with r*r - r < n <= r*r + r, by bisection
    IF lo >= hi THEN lo
    ELSE LET mid == (lo + hi) \div 2
         IN IF n <= mid * mid + mid THEN RoundSqrtFrom(n, lo, mid)
            ELSE RoundSqrtFrom(n, mid + 1, hi)

\* round(haversine(lat1, lon1, lat2, lon2))
RoundHaversine(lat1, lon1, lat2, lon2) ==
    RoundSqrtFrom(SqDist(lat1, lon1, lat2, lon2), 0, 40000)

\* mutant: the bounds are not looked at
IsInTelAvivAlways(lat, lon) == TRUE

is_in_tel_aviv(lat, lon) ==
    /\ TA_BOUNDS.lat_min <= lat /\ lat <= TA_BOUNDS.lat_max
    /\ TA_BOUNDS.lon_min <= lon /\ lon <= TA_BOUNDS.lon_max

\* ----------------------------------------------------- deduplication ----
priority(source) ==
    CASE source = "ta" -> 4
      [] source = "muni" -> 3
      [] source = "gov" -> 2
      [] source = "osm" -> 1
      [] OTHER -> 0

\* mutant: two records count as one place only below half the threshold
NearHalf(s, e, threshold_m) ==
    SqDist(s.lat, s.lon, e.lat, e.lon) < (threshold_m \div 2) * (threshold_m \div 2)

Near(s, e, threshold_m) == (SqDist(s.lat, s.lon, e.lat, e.lon) < threshold_m * threshold_m)

\* mutant: the incoming record replaces the accepted one unless it ranks higher
DedupStepFlipped(result, s, threshold_m) ==
    LET hits == {i \in 1..Len(result) : Near(s, result[i], threshold_m)}
    IN IF hits = {} THEN Append(result, s)
       ELSE LET i == Min(hits)
            IN IF priority(s.source) < priority(result[i].source)
               THEN [result EXCEPT ![i] = s]
               ELSE result

\* mutant: a record near an accepted one is appended all the same
DedupStepKeepAll(result, s, threshold_m) == Append(result, s)

\* one iteration of the outer loop of deduplicate_shelters: s is compared
\* with the accepted records in order and the scan stops at the first match
DedupStep(result, s, threshold_m) ==
    LET hits == {i \in 1..Len(result) : Near(s, result[i], threshold_m)}
    IN IF hits = {} THEN Append(result, s)
       ELSE LET i == Min(hits)
            IN IF priority(s.source) > priority(result[i].source)
               THEN [result EXCEPT ![i] = s]
               ELSE result

RECURSIVE DedupFrom(_, _, _)
DedupFrom(result, shelters, threshold_m) ==
    IF shelters = << >> THEN result
    ELSE DedupFrom(DedupStep(result, Head(shelters), threshold_m),
                   Tail(shelters), threshold_m)

deduplicate_shelters(shelters) == DedupFrom(<< >>, shelters, DEDUP_THRESHOLD_M)

SetOf(seq) == {seq[i] : i \in 1..Len(seq)}

\* ------------------------------------------------ Python value helpers --
\* truth value of a coordinate-like JSON value
Truthy(v) == v # NoneV /\ v # AbsentV /\ v # 0

\* a or b
PyOr(a, b) == IF Truthy(a) THEN a ELSE b

\* d.get(k) : an absent key reads as None
Get(v) == IF v = AbsentV THEN NoneV ELSE v

\* d.get(k, 0) : an absent key reads as 0
GetOr0(v) == IF v = AbsentV THEN 0 ELSE v

Raise == [raised |-> TRUE, val |-> << >>]
Return(v) == [raised |-> FALSE, val |-> v]

RECURSIVE InsertByDistance(_, _)
InsertByDistance(sorted, s) ==
    \* s goes after every element whose distance is not larger (stable)
    IF sorted = << >> THEN << s >>
    ELSE IF Head(sorted).distance <= s.distance
         THEN << Head(sorted) >> \o InsertByDistance(Tail(sorted), s)
         ELSE << s >> \o sorted

RECURSIVE SortFrom(_, _)
SortFrom(sorted, rest) ==
    IF rest = << >> THEN sorted
    ELSE SortFrom(InsertByDistance(sorted, Head(rest)), Tail(rest))

\* list.sort(key=lambda x: x["distance"]) : ascending and stable
SortByDistance(shelters) == SortFrom(<< >>, shelters)

\* mutant: the list is passed on unfiltered
WithinDistanceAll(shelters, r) == shelters

\* [s for s in shelters if s["distance"] <= r]
WithinDistance(shelters, r) == SelectSeq(shelters, LAMBDA s : s.distance <= r)

\* ------------------------------------------------- HTTP responses -------
\* A response is [status, features]: status "fail" is an exception of the
\* request itself (network error, timeout, non-success status, body that is
\* not JSON), "error" a JSON object with an "error" member, "shape" a JSON
\* value that is not an object, "ok" an object whose feature list is
\* `features`.
Fail == [status |-> "fail", features |-> << >>]
Ok(features) == [status |-> "ok", features |-> features]

\* -------------------------------------------- Tel-Aviv ArcGIS connector -

parse_shelter_arcgis(feat, ulat, ulon) ==
    LET slat == PyOr(Get(feat.y), NoneV)
        slon == PyOr(Get(feat.x), NoneV)
    IN IF feat.attrs = "bad" THEN Raise
       ELSE IF ~IsNum(slat) \/ ~IsNum(slon) THEN Raise
       ELSE Return([id |-> << "ta", "", PyOr(Get(feat.oid), EmptyV) >>,
                    lat |-> slat, lon |-> slon,
                    distance |-> RoundHaversine(ulat, ulon, slat, slon),
                    source |-> "ta"])

RECURSIVE MapArcgis(_, _, _)
MapArcgis(features, lat, lon) ==
    IF features = << >> THEN Return(<< >>)
    ELSE IF ~((Head(features)).geom = "obj" /\ ~((Head(features)).y = AbsentV /\ (Head(features)).x = AbsentV)) THEN MapArcgis(Tail(features), lat, lon)
    ELSE LET p == parse_shelter_arcgis(Head(features), lat, lon)
             rest == MapArcgis(Tail(features), lat, lon)
         IN IF p.raised \/ rest.raised THEN Raise
            ELSE Return(<< p.val >> \o rest.val)

\* mutant: the full table is passed on without the radius filter
FullScanUnfiltered(features, lat, lon) == Return(features)

RECURSIVE FullScanFilter(_, _, _)
FullScanFilter(features, lat, lon) ==
    IF features = << >> THEN Return(<< >>)
    ELSE LET f == Head(features)
             rest == FullScanFilter(Tail(features), lat, lon)
         IN IF ~(f.geom = "obj" /\ ~(f.y = AbsentV /\ f.x = AbsentV))
            THEN rest
            ELSE IF ~IsNum(GetOr0(f.y)) \/ ~IsNum(GetOr0(f.x)) \/ rest.raised
            THEN Raise
            ELSE IF HaversineLeq(lat, lon, GetOr0(f.y), GetOr0(f.x), SEARCH_RADIUS_M)
            THEN Return(<< f >> \o rest.val)
            ELSE rest

\* resp: the spatial query, resp2: the full-table request (sent only when
\* the spatial query gave no feature).  Every exception is caught.
fetch_shelters_arcgis(lat, lon, resp, resp2) ==
    IF resp.status # "ok" THEN << >>
    ELSE LET features ==
                 IF resp.features # << >> THEN Return(resp.features)
                 ELSE IF resp2.status \in {"fail", "shape"} THEN Raise
                 ELSE FullScanFilter(resp2.features, lat, lon)
         IN IF features.raised THEN << >>
            ELSE LET out == MapArcgis(features.val, lat, lon)
                 IN IF out.raised THEN << >> ELSE out.val


\* ------------------------------------------- municipal ArcGIS connector -
\* The registry entries whose coverage the model's query sites touch
\* (bbox = (min_lat, min_lon, max_lat, max_lon), degrees converted to metres).
MUNICIPAL_ARCGIS ==
    << [name |-> "Holon", bbox |-> << 3556016, 3271844, 3564912, 3278438 >>],
       [name |-> "TA kindergartens", bbox |-> << 3561576, 3272786, 3574919, 3280323 >>] >>

BBOX_MARGIN_LAT == 5560         \* 0.05 degrees of latitude
BBOX_MARGIN_LON == 4710         \* 0.05 degrees of longitude

\* mutant: the margin taken twice
InBboxWide(lat, lon, bbox) ==
    /\ bbox[1] - 2 * BBOX_MARGIN_LAT <= lat /\ lat <= bbox[3] + 2 * BBOX_MARGIN_LAT
    /\ bbox[2] - 2 * BBOX_MARGIN_LON <= lon /\ lon <= bbox[4] + 2 * BBOX_MARGIN_LON

_in_bbox(lat, lon, bbox) ==
    /\ bbox[1] - BBOX_MARGIN_LAT <= lat /\ lat <= bbox[3] + BBOX_MARGIN_LAT
    /\ bbox[2] - BBOX_MARGIN_LON <= lon /\ lon <= bbox[4] + BBOX_MARGIN_LON

\* result kinds of _parse_municipal_feature: a record, None, or an exception
_parse_municipal_feature(feat, ulat, ulon, source_name) ==
    IF feat.geom = "null" THEN [kind |-> "raise"]
    ELSE LET slat == IF feat.geom = "absent" THEN NoneV ELSE Get(feat.y)
             slon == IF feat.geom = "absent" THEN NoneV ELSE Get(feat.x)
         IN IF ~Truthy(slat) \/ ~Truthy(slon) THEN [kind |-> "none"]
            ELSE IF ~IsNum(slat) THEN [kind |-> "raise"]
            ELSE IF slat < ONE_DEGREE THEN [kind |-> "none"]
            ELSE IF ~IsNum(slon) THEN [kind |-> "raise"]
            ELSE IF feat.attrs = "bad" THEN [kind |-> "raise"]
            ELSE [kind |-> "rec",
                  rec |-> [id |-> << "muni", source_name, PyOr(Get(feat.oid), EmptyV) >>,
                           lat |-> slat, lon |-> slon,
                           distance |-> RoundHaversine(ulat, ulon, slat, slon),
                           source |-> "muni"]]

\* the loop over the features of one endpoint: an exception ends the loop,
\* the records appended before it stay
RECURSIVE MuniFeatures(_, _, _, _, _)
MuniFeatures(features, lat, lon, radius_m, source_name) ==
    IF features = << >> THEN << >>
    ELSE LET s == _parse_municipal_feature(Head(features), lat, lon, source_name)
         IN IF s.kind = "raise" THEN << >>
            ELSE IF s.kind = "rec" /\ s.rec.distance <= radius_m
            THEN << s.rec >> \o MuniFeatures(Tail(features), lat, lon, radius_m, source_name)
            ELSE MuniFeatures(Tail(features), lat, lon, radius_m, source_name)

\* indices of the registry entries queried for (lat, lon)
Relevant(lat, lon) ==
    {i \in 1..Len(MUNICIPAL_ARCGIS) : _in_bbox(lat, lon, MUNICIPAL_ARCGIS[i].bbox)}

\* mutant: a failed endpoint ends the loop over the registry
RECURSIVE MuniEndpointsUntilFailure(_, _, _, _, _)
MuniEndpointsUntilFailure(i, lat, lon, radius_m, resp) ==
    IF i > Len(MUNICIPAL_ARCGIS) THEN << >>
    ELSE IF i \notin Relevant(lat, lon)
    THEN MuniEndpointsUntilFailure(i + 1, lat, lon, radius_m, resp)
    ELSE IF resp[i].status # "ok" THEN << >>
    ELSE MuniFeatures(resp[i].features, lat, lon, radius_m, MUNICIPAL_ARCGIS[i].name)
         \o MuniEndpointsUntilFailure(i + 1, lat, lon, radius_m, resp)

RECURSIVE MuniEndpointsFrom(_, _, _, _, _)
MuniEndpointsFrom(i, lat, lon, radius_m, resp) ==
    IF i > Len(MUNICIPAL_ARCGIS) THEN << >>
    ELSE LET rest == MuniEndpointsFrom(i + 1, lat, lon, radius_m, resp)
         IN IF i \notin Relevant(lat, lon) \/ resp[i].status # "ok" THEN rest
            ELSE MuniFeatures(resp[i].features, lat, lon, radius_m,
                              MUNICIPAL_ARCGIS[i].name) \o rest

\* resp[i] is the response of registry entry i (read only for relevant ones)
fetch_shelters_municipal(lat, lon, radius_m, resp) ==
    MuniEndpointsFrom(1, lat, lon, radius_m, resp)

\* ------------------------------------------------- Overpass connector ---
\* An element is [type, id, lat, lon, clat, clon, attrs]: lat/lon are the
\* members of a node, clat/clon those of the "center" of a way or relation;
\* id is AbsentV when the member is missing; attrs is "bad" when a tag that
\* must be a string is null.
RECURSIVE OsmElements(_, _, _)
OsmElements(elements, lat, lon) ==
    IF elements = << >> THEN Return(<< >>)
    ELSE LET el == Head(elements)
             slat == PyOr(Get(el.lat), Get(el.clat))
             slon == PyOr(Get(el.lon), Get(el.clon))
             rest == OsmElements(Tail(elements), lat, lon)
         IN IF ~Truthy(slat) \/ ~Truthy(slon) THEN rest
            ELSE IF el.attrs = "bad" \/ el.id = AbsentV
                    \/ ~IsNum(slat) \/ ~IsNum(slon) \/ rest.raised
            THEN Raise
            ELSE Return(<< [id |-> << "osm", el.type, el.id >>,
                            lat |-> slat, lon |-> slon,
                            distance |-> RoundHaversine(lat, lon, slat, slon),
                            source |-> "osm"] >> \o rest.val)

\* mutant: a failed request is not caught
fetch_shelters_osm_unguarded(lat, lon, radius_m, resp) ==
    IF resp.status \in {"fail", "shape"} THEN Raise
    ELSE LET out == OsmElements(resp.features, lat, lon)
         IN IF out.raised THEN Raise ELSE Return(SortByDistance(out.val))

\* only the request and the JSON decoding are inside the try block
fetch_shelters_osm(lat, lon, radius_m, resp) ==
    IF resp.status = "fail" THEN Return(<< >>)
    ELSE IF resp.status = "shape" THEN Raise
    ELSE LET out == OsmElements(resp.features, lat, lon)
         IN IF out.raised THEN Raise ELSE Return(SortByDistance(out.val))

\* ----------------------------------------------------- place resolver ---
\* Place names are strings; the names beginning with the regional-council
\* word are those of RegionalLabels.
RegionalLabels == {"Moatza Azorit"}

startswith_moatza(v) == v \in RegionalLabels

ADDRESS_KEYS == << "city", "town", "village", "suburb", "neighbourhood",
                   "hamlet", "municipality" >>

RECURSIVE NamesFromAddress(_, _, _)
NamesFromAddress(names, i, addr) ==
    IF i > Len(ADDRESS_KEYS) THEN names
    ELSE LET v == addr[ADDRESS_KEYS[i]]
         IN IF v # "" /\ v \notin SetOf(names) /\ ~startswith_moatza(v)
            THEN NamesFromAddress(Append(names, v), i + 1, addr)
            ELSE NamesFromAddress(names, i + 1, addr)

\* An Overpass place node is [name, lat, lon]; name "" when the tag is absent.
RECURSIVE InsertPlace(_, _)
InsertPlace(sorted, pl) ==
    IF sorted = << >> THEN << pl >>
    ELSE IF Head(sorted).d2 <= pl.d2
         THEN << Head(sorted) >> \o InsertPlace(Tail(sorted), pl)
         ELSE << pl >> \o sorted

RECURSIVE SortPlaces(_, _, _, _)
SortPlaces(sorted, elements, lat, lon) ==
    IF elements = << >> THEN sorted
    ELSE LET el == Head(elements)
         IN IF el.name = "" THEN SortPlaces(sorted, Tail(elements), lat, lon)
            ELSE SortPlaces(InsertPlace(sorted,
                                [name |-> el.name,
                                 d2 |-> SqDist(lat, lon, el.lat, el.lon)]),
                            Tail(elements), lat, lon)

_settlement_names_osm(lat, lon, ov) ==
    IF ov.status # "ok" THEN << >>
    ELSE LET places == SortPlaces(<< >>, ov.features, lat, lon)
         IN [i \in 1..(IF Len(places) < 3 THEN Len(places) ELSE 3) |-> places[i].name]

RECURSIVE AppendNew(_, _)
AppendNew(names, more) ==
    IF more = << >> THEN names
    ELSE IF Head(more) \in SetOf(names) THEN AppendNew(names, Tail(more))
    ELSE AppendNew(Append(names, Head(more)), Tail(more))

\* nom: the Nominatim response, its `features` the address mapping;
\* ov: the Overpass response of the settlement fallback
reverse_geocode_names(lat, lon, nom, ov) ==
    IF nom.status # "ok" THEN << >>
    ELSE LET addr == nom.features
             names == NamesFromAddress(<< >>, 1, addr)
             is_regional == \A k \in {"city", "town"} :
                                startswith_moatza(addr[k]) \/ addr[k] = ""
         IN IF is_regional /\ names = << >>
            THEN AppendNew(names, _settlement_names_osm(lat, lon, ov))
            ELSE names

\* does reverse_geocode_names send the settlement request
SettlementLookupSent(nom) ==
    /\ nom.status = "ok"
    /\ NamesFromAddress(<< >>, 1, nom.features) = << >>
    /\ \A k \in {"city", "town"} :
           startswith_moatza(nom.features[k]) \/ nom.features[k] = ""

\* _HE_SPELLING_VARIANTS applied to the model's names: for each name the
\* variants name.replace(orig, alt) of the pairs whose orig occurs in it, in
\* the order of the pairs
HeVariants(name) ==
    CASE name = "Qiryat Gat" -> << "Qiryyat Gat" >>
      [] name = "Qiryyat Gat" -> << "Qiryat Gat" >>
      [] name = "Tel Aviv~Yafo" -> << "Tel Aviv-Yafo", "Tel Aviv-Yafo" >>
      [] name = "Tel Aviv-Yafo" -> << "Tel Aviv~Yafo" >>
      [] OTHER -> << >>

RECURSIVE Expand(_, _)
Expand(expanded, place_names) ==
    IF place_names = << >> THEN expanded
    ELSE Expand(AppendNew(Append(expanded, Head(place_names)),
                          HeVariants(Head(place_names))),
                Tail(place_names))

\* ---------------------------------------------------- GovMap connector --
ITM_OFFSET_X == 3100000         \* ITM easting 0 in the model's lon metres
ITM_OFFSET_Y == 2900000         \* ITM northing 0 in the model's lat metres

\* lines 28-38: the transformer the import of pyproj leaves behind; FALSE is
\* the None of the except branch
VARIABLE _itm_to_wgs

\* returns (lat, lon) for an ITM (x, y), (None, None) without pyproj
itm_to_wgs84(x, y) ==
    IF _itm_to_wgs THEN << y + ITM_OFFSET_Y, x + ITM_OFFSET_X >>
    ELSE << NoneV, NoneV >>

SEARCH_PREFIXES == 4

\* A dict keyed by ObjectID is a sequence of [oid, data] in insertion order.
Keys(d) == {d[i].oid : i \in 1..Len(d)}

RECURSIVE MergeNewKeys(_, _)
MergeNewKeys(d, more) ==
    IF more = << >> THEN d
    ELSE IF Head(more).oid \in Keys(d) THEN MergeNewKeys(d, Tail(more))
    ELSE MergeNewKeys(Append(d, Head(more)), Tail(more))

\* the loop over the hits of one text search; a hit is [oid, X, Y, label],
\* label "null" when ResultLable is null
RECURSIVE GovItems(_, _, _)
GovItems(city_shelters, results, all_cached) ==
    IF results = << >> THEN Return(city_shelters)
    ELSE LET item == Head(results)
         IN IF item.oid \in Keys(city_shelters) \/ item.oid \in Keys(all_cached)
               \/ ~Truthy(item.X) \/ ~Truthy(item.Y)
            THEN GovItems(city_shelters, Tail(results), all_cached)
            ELSE LET ll == itm_to_wgs84(item.X, item.Y)
                 IN IF ll[1] = NoneV
                    THEN GovItems(city_shelters, Tail(results), all_cached)
                    ELSE IF item.label = "null" THEN Raise
                    ELSE GovItems(Append(city_shelters,
                                 [oid |-> item.oid,
                                  data |-> [id |-> << "gov", "", item.oid >>,
                                            lat |-> ll[1], lon |-> ll[2],
                                            source |-> "gov"]]),
                             Tail(results), all_cached)

\* the four keyword searches of one city; search[k] is the response of the
\* k-th one
RECURSIVE GovCity(_, _, _, _)
GovCity(city_shelters, k, search, all_cached) ==
    IF k > SEARCH_PREFIXES THEN Return(city_shelters)
    ELSE IF search[k].status # "ok" THEN GovCity(city_shelters, k + 1, search, all_cached)
    ELSE LET r == GovItems(city_shelters, search[k].features, all_cached)
         IN IF r.raised THEN Raise
            ELSE GovCity(r.val, k + 1, search, all_cached)

\* mutant: the cached entries of the candidates are not read
FromCacheIgnored(all_cached, place_names, cache) == all_cached

RECURSIVE FromCache(_, _, _)
FromCache(all_cached, place_names, cache) ==
    IF place_names = << >> THEN all_cached
    ELSE IF Head(place_names) \in DOMAIN cache
         THEN FromCache(MergeNewKeys(all_cached, cache[Head(place_names)]),
                        Tail(place_names), cache)
         ELSE FromCache(all_cached, Tail(place_names), cache)

\* the loop over cities_to_fetch: [raised, all_cached, cache, searched, writes];
\* searched lists the cities whose keyword searches were sent, writes the
\* assignments _govmap_cache[city] = city_shelters of line 601, in order
RECURSIVE GovFetchCities(_, _, _, _)
GovFetchCities(cities, search, all_cached, cache) ==
    IF cities = << >>
    THEN [raised |-> FALSE, all_cached |-> all_cached, cache |-> cache,
          searched |-> << >>, writes |-> << >>]
    ELSE LET city == Head(cities)
             r == GovCity(<< >>, 1, search[city], all_cached)
         IN IF r.raised
            THEN [raised |-> TRUE, all_cached |-> all_cached, cache |-> cache,
                  searched |-> << city >>, writes |-> << >>]
            ELSE LET rest == GovFetchCities(Tail(cities), search,
                                all_cached \o r.val,
                                [c \in DOMAIN cache \cup {city} |->
                                    IF c = city THEN r.val ELSE cache[c]])
                 IN [rest EXCEPT !.searched = << city >> \o @,
                                 !.writes = << << city, r.val >> >> \o @]

\* mutant: the distance is taken from the point of the first query
GovInRadiusStale(all_cached, lat, lon, radius_m) ==
    LET kept == SelectSeq(all_cached, LAMBDA e :
                    HaversineLeq(lat, lon, e.data.lat, e.data.lon, radius_m))
    IN [i \in 1..Len(kept) |->
            [id |-> kept[i].data.id, lat |-> kept[i].data.lat, lon |-> kept[i].data.lon,
             distance |-> RoundHaversine(3567000, 3276000,
                                         kept[i].data.lat, kept[i].data.lon),
             source |-> kept[i].data.source]]

RECURSIVE GovInRadius(_, _, _, _)
GovInRadius(all_cached, lat, lon, radius_m) ==
    IF all_cached = << >> THEN << >>
    ELSE LET s == Head(all_cached).data
             rest == GovInRadius(Tail(all_cached), lat, lon, radius_m)
         IN IF HaversineLeq(lat, lon, s.lat, s.lon, radius_m)
            THEN << [id |-> s.id, lat |-> s.lat, lon |-> s.lon,
                     distance |-> RoundHaversine(lat, lon, s.lat, s.lon),
                     source |-> s.source] >> \o rest
            ELSE rest

\* [raised, val, cache, names, searched, writes]: the returned list,
\* _govmap_cache after the call, the candidate list after line 537, the
\* cities searched and the cache writes made.
\* search[city][k] is the response of the k-th keyword search for city.
GovSkip(cache) ==
    [raised |-> FALSE, val |-> << >>, cache |-> cache,
     names |-> << >>, searched |-> << >>, writes |-> << >>]

\* lines 520-615: the connector from the resolver on
GovFromResolver(lat, lon, radius_m, nom, ov, search, cache) ==
    LET names == reverse_geocode_names(lat, lon, nom, ov)
    IN IF names = << >> THEN GovSkip(cache)
       ELSE LET place_names == Expand(<< >>, names)
                cities_to_fetch == SelectSeq(place_names,
                                       LAMBDA c : c \notin DOMAIN cache)
                r == GovFetchCities(cities_to_fetch, search,
                                    FromCache(<< >>, place_names, cache), cache)
            IN [raised |-> r.raised,
                val |-> IF r.raised THEN << >>
                        ELSE SortByDistance(GovInRadius(r.all_cached, lat, lon,
                                                        radius_m)),
                cache |-> r.cache,
                names |-> place_names,
                searched |-> r.searched,
                writes |-> r.writes]

\* mutant: the connector runs whether or not the transformer is there
FetchGovmapUnguarded(lat, lon, radius_m, nom, ov, search, cache) ==
    GovFromResolver(lat, lon, radius_m, nom, ov, search, cache)

fetch_shelters_govmap(lat, lon, radius_m, nom, ov, search, cache) ==
    IF ~_itm_to_wgs THEN GovSkip(cache)
    ELSE GovFromResolver(lat, lon, radius_m, nom, ov, search, cache)

\* ------------------------------------------------------------ state -----
VARIABLES
    query,              \* (lat, lon) of the running fetch_shelters call
    pc,                 \* position in fetch_shelters
    shelters_muni,      \* fetch_shelters_municipal(lat, lon, 5000)
    shelters_gov_all,   \* fetch_shelters_govmap(lat, lon, 5000)
    shelters_osm,       \* result of the latest fetch_shelters_osm call
    shelters_ta,        \* fetch_shelters_arcgis(lat, lon), [] outside Tel Aviv
    merged,             \* the concatenation handed to deduplicate_shelters
    all_shelters,       \* the deduplicated set
    pass,               \* expansion passes done (0..2)
    result,             \* the list fetch_shelters returned
    _govmap_cache,      \* city -> dict of cached records
    calls,              \* connector invocations of this call: << name, radius >>
    io,                 \* the responses the network gave to this call
    nqueries,           \* calls started so far
    reply,              \* the message handle_location sent after the search
    dd_in, dd_out, dd_i,        \* deduplicate_shelters run on a list of its own
    cn_conn, cn_resp, cn_out,   \* one connector run on a response of its own
    gc_call,            \* the latest of a series of fetch_shelters_govmap calls
    rc_pc, rc_local,    \* two fetch_shelters_govmap calls running interleaved:
                        \* the position and the local variables of each
    mg_site, mg_out,    \* fetch_shelters_municipal run at a point of its own
    checkins,           \* the rows of table checkins
    reviews,            \* the rows of table reviews, in insertion order
    now,                \* the clock, in hours
    user_data,          \* ctx.user_data of the user of the session
    conversation,       \* the state of review_conv for that user
    markup,             \* callback data of the buttons under the shelter card
    sent                \* the latest update handled and what was answered

pipeVars == << query, pc, shelters_muni, shelters_gov_all, shelters_osm, shelters_ta,
               merged, all_shelters, pass, result, _govmap_cache, calls, io, nqueries,
               _itm_to_wgs, reply >>
ddVars == << dd_in, dd_out, dd_i >>
cnVars == << cn_conn, cn_resp, cn_out >>
gcVars == << gc_call >>
rcVars == << rc_pc, rc_local >>
mgVars == << mg_site, mg_out >>
botVars == << checkins, reviews, now, user_data, conversation, markup, sent >>
vars == << pipeVars, ddVars, cnVars, gcVars, rcVars, mgVars, botVars >>

\* ------------------------------------------------- the modelled world ---
SiteTelAviv == [lat |-> 3567000, lon |-> 3276000]   \* inside TA_BOUNDS

\* a well-formed ArcGIS point feature dlat metres north of q; oid stands for
\* the id attribute the parser probes (OBJECTID, OBJECTID_1, FID; UniqueId,
\* oid_mitkan), AbsentV when the layer has none of them
Feature(q, dlat, oid) ==
    [geom |-> "obj", y |-> q.lat + dlat, x |-> q.lon, oid |-> oid, attrs |-> "ok"]


T1(q) == Feature(q, 100, 1)
T2(q) == Feature(q, 1500, 2)

TaResponses(q) ==
    { Fail, ([status |-> "error", features |-> << >>]), Ok(<< >>), Ok(<< T1(q) >>), Ok(<< T1(q), T2(q) >>),
      Ok(<< T1(q), ([Feature(q, 200, 9) EXCEPT !.y = AbsentV]), T2(q) >>) }



\* one response for each registry entry
MuniResponses(q) ==
    { << r1, r2 >> :
        r1 \in { Fail, ([status |-> "error", features |-> << >>]), Ok(<< (Feature(q, 2500, 3)) >>), Ok(<< (Feature(q, 130, 1)), (Feature(q, -1000, 2)) >>),
                 Ok(<< (Feature(q, 130, 1)), ([Feature(q, 200, 9) EXCEPT !.geom = "null"]), (Feature(q, -1000, 2)) >>) },
        r2 \in { Fail, Ok(<< (Feature(q, -1030, 1)) >>),
                 Ok(<< Feature(q, -1030, AbsentV), Feature(q, 700, AbsentV) >>) } }

OsmNode(q, dlat, id) ==
    [type |-> "node", id |-> id, lat |-> q.lat + dlat, lon |-> q.lon,
     clat |-> AbsentV, clon |-> AbsentV, attrs |-> "ok"]
OsmWay(q, dlat, id) ==
    [type |-> "way", id |-> id, lat |-> AbsentV, lon |-> AbsentV,
     clat |-> q.lat + dlat, clon |-> q.lon, attrs |-> "ok"]

O2(q) == OsmWay(q, -500, 2)

\* Overpass answers with elements inside the requested radius
OsmResponses(q, radius_m) ==
    { Fail, ([status |-> "shape", features |-> << >>]), Ok(<< >>), Ok(<< (OsmNode(q, 190, 1)) >>), Ok(<< (OsmNode(q, 190, 1)), O2(q) >>),
      Ok(<< O2(q), ([OsmNode(q, 300, 9) EXCEPT !.id = AbsentV]) >>) }
    \cup (IF radius_m >= 3000 THEN { Ok(<< (OsmNode(q, 2900, 3)), O2(q) >>) } ELSE {})
    \cup (IF radius_m >= 5000 THEN { Ok(<< (OsmNode(q, -4000, 4)), (OsmNode(q, 2900, 3)) >>) } ELSE {})

Address(city, town, suburb) ==
    [k \in SetOf(ADDRESS_KEYS) |->
        CASE k = "city" -> city [] k = "town" -> town [] k = "suburb" -> suburb
          [] OTHER -> ""]




\* a GovMap hit dlat metres north of q
Hit(q, dlat, oid) ==
    [oid |-> (IF q = SiteTelAviv THEN 0 ELSE 100) + oid, X |-> q.lon - ITM_OFFSET_X, Y |-> q.lat + dlat - ITM_OFFSET_Y,
     label |-> "ok"]

G1(q) == Hit(q, 160, 1)
G3(q) == Hit(q, -400, 3)

Cities == {"Qiryat Gat", "Qiryyat Gat", "Haifa"}

\* the index behind the text search: the hits of the k-th keyword search
GovIndex(q, city, k) ==
    CASE city = "Haifa" -> << G3(q) >>
      [] k = 1 -> << G1(q), (Hit(q, 2800, 2)) >>
      [] k = 2 -> << G1(q), G3(q) >>
      [] k = 3 -> << (Hit(q, -3500, 4)) >>
      [] OTHER -> << >>

SearchesWith(q, k0, r0) ==
    [c \in Cities |-> [k \in 1..SEARCH_PREFIXES |->
                          IF k = k0 THEN r0 ELSE Ok(GovIndex(q, c, k))]]

\* the searches of one call: all answered, all failing, the first failing,
\* one answered with a hit without coordinates, one with a null label
GovSearches(q) ==
    { SearchesWith(q, 0, Fail),
      [c \in Cities |-> [k \in 1..SEARCH_PREFIXES |-> Fail]],
      SearchesWith(q, 1, Fail),
      SearchesWith(q, 2, Ok(<< ([Hit(q, 700, 8) EXCEPT !.X = NoneV]), G3(q) >>)),
      SearchesWith(q, 2, Ok(<< G3(q), ([Hit(q, 700, 9) EXCEPT !.label = "null"]) >>)) }

\* ------------------------------------------------------ fetch_shelters --
\* mutant: a third expansion pass
ExpandedRadiiThree == << 3000, 4000, 5000 >>

\* line 927
EXPANDED_RADII == << 3000, 5000 >>
MIN_RESULTS == 3

NoResp == [status |-> "none", features |-> << >>]
NoSearch == [c \in Cities |-> [k \in 1..SEARCH_PREFIXES |-> NoResp]]
NoIo == [muni |-> << NoResp, NoResp >>, nom |-> NoResp, ov |-> NoResp,
         search |-> NoSearch, cached |-> {}, searched |-> << >>, writes |-> << >>,
         osm |-> NoResp, ta |-> NoResp, ta2 |-> NoResp]


\* shelters_ta + shelters_muni_near + shelters_gov + shelters_osm
MergeLists(ta, muni, gov, osm) == ta \o muni \o gov \o osm

PipeInit ==
    /\ query \in ({SiteTelAviv, ([lat |-> 3553000, lon |-> 3276000])})
    /\ pc = "muni"
    /\ shelters_muni = << >> /\ shelters_gov_all = << >>
    /\ shelters_osm = << >> /\ shelters_ta = << >>
    /\ merged = << >> /\ all_shelters = << >>
    /\ pass = 0
    /\ result = << >>
    /\ _govmap_cache = << >>
    /\ calls = << >>
    /\ io = NoIo
    /\ nqueries = 1
    /\ _itm_to_wgs \in BOOLEAN
    /\ reply = "none"

PipeIdle ==
    /\ query = SiteTelAviv
    /\ pc = "off"
    /\ shelters_muni = << >> /\ shelters_gov_all = << >>
    /\ shelters_osm = << >> /\ shelters_ta = << >>
    /\ merged = << >> /\ all_shelters = << >>
    /\ pass = 0
    /\ result = << >>
    /\ _govmap_cache = << >>
    /\ calls = << >>
    /\ io = NoIo
    /\ nqueries = 0
    /\ _itm_to_wgs = TRUE
    /\ reply = "none"

DdIdle == dd_in = << >> /\ dd_out = << >> /\ dd_i = 0
NotRun == [run |-> FALSE, raised |-> FALSE, val |-> << >>]
Ran(r) == [run |-> TRUE, raised |-> r.raised, val |-> r.val]
CnIdle == cn_conn = "none" /\ cn_resp = NoResp /\ cn_out = NotRun
GcIdle == gc_call = ([n |-> 0])
RcIdle == rc_pc = << >> /\ rc_local = << >>
MgIdle == mg_site = SiteTelAviv /\ mg_out = NotRun

\* nothing handled yet
NoUpdate == [on |-> << >>, user |-> 0, text |-> "", buddies |-> {}, reviews |-> << >>]

\* no table row, no session, no conversation
BotIdle ==
    /\ checkins = {} /\ reviews = << >> /\ now = 0
    /\ user_data = [shelters |-> << >>, rv_id |-> << >>, rv_addr |-> << >>,
                    rv_text |-> "None", rv_from |-> 0]
    /\ conversation = "END"
    /\ markup = [checkin |-> << >>, review |-> << >>]
    /\ sent = NoUpdate

\* line 902: the municipal connector at the wide radius
FetchMuni ==
    /\ pc = "muni"
    /\ \E resp \in MuniResponses(query) :
         /\ shelters_muni' = fetch_shelters_municipal(query.lat, query.lon,
                                                      WIDE_RADIUS_M, resp)
         /\ io' = [io EXCEPT !.muni = [i \in 1..Len(MUNICIPAL_ARCGIS) |->
                        IF i \in Relevant(query.lat, query.lon) THEN resp[i] ELSE NoResp]]
    /\ calls' = Append(calls, << "muni", WIDE_RADIUS_M >>)
    /\ pc' = "gov"
    /\ UNCHANGED << reply, _itm_to_wgs, query, shelters_gov_all, shelters_osm, shelters_ta, merged,
                    all_shelters, pass, result, _govmap_cache, nqueries >>

\* mutant: an empty result is answered like a failed search
ReplyOfEmptyAsError(raised, shelters) ==
    IF raised \/ shelters = << >> THEN "search_error" ELSE "list"

\* lines 1048-1060: the message handle_location sends after fetch_shelters
\* raised or returned shelters ("list" stands for the keyboard of results)
ReplyOf(raised, shelters) ==
    IF raised THEN "search_error"
    ELSE IF shelters = << >> THEN "no_shelters"
    ELSE "list"

\* line 908: the GovMap connector at the wide radius
FetchGov ==
    /\ pc = "gov"
    /\ \E nom \in ({ Fail, Ok(Address("Qiryat Gat", "", "")), Ok(Address("Moatza Azorit", "", "")) }) :
       \E ov \in (IF SettlementLookupSent(nom) THEN ({ Fail, Ok(<< [name |-> "Haifa", lat |-> query.lat + 900, lon |-> query.lon], [name |-> "Qiryyat Gat", lat |-> query.lat + 300, lon |-> query.lon] >>) })
                  ELSE {NoResp}) :
       \E search \in (IF reverse_geocode_names(query.lat, query.lon, nom, ov) = << >>
                      THEN {NoSearch} ELSE GovSearches(query)) :
         LET r == fetch_shelters_govmap(query.lat, query.lon, WIDE_RADIUS_M,
                                        nom, ov, search, _govmap_cache)
         IN /\ _govmap_cache' = r.cache
            /\ shelters_gov_all' = r.val
            /\ pc' = IF r.raised THEN "raised" ELSE "osm"
            /\ reply' = IF r.raised THEN ReplyOf(TRUE, << >>) ELSE reply
            /\ io' = IF ~_itm_to_wgs
                     THEN [io EXCEPT !.cached = DOMAIN _govmap_cache,
                                     !.searched = r.searched, !.writes = r.writes]
                     ELSE
                     [io EXCEPT !.nom = nom, !.ov = ov, !.search = search,
                                  !.cached = DOMAIN _govmap_cache,
                                  !.searched = r.searched, !.writes = r.writes]
    /\ calls' = Append(calls, << "gov", WIDE_RADIUS_M >>)
    /\ UNCHANGED << _itm_to_wgs, query, shelters_muni, shelters_osm, shelters_ta, merged,
                    all_shelters, pass, result, nqueries >>

\* line 913: the Overpass connector at the base radius
FetchOsm ==
    /\ pc = "osm"
    /\ \E resp \in OsmResponses(query, SEARCH_RADIUS_M) :
         LET r == fetch_shelters_osm(query.lat, query.lon, SEARCH_RADIUS_M, resp)
         IN /\ shelters_osm' = r.val
            /\ pc' = IF r.raised THEN "raised" ELSE "ta"
            /\ reply' = IF r.raised THEN ReplyOf(TRUE, << >>) ELSE reply
            /\ io' = [io EXCEPT !.osm = resp]
    /\ calls' = Append(calls, << "osm", SEARCH_RADIUS_M >>)
    /\ UNCHANGED << _itm_to_wgs, query, shelters_muni, shelters_gov_all, shelters_ta, merged,
                    all_shelters, pass, result, _govmap_cache, nqueries >>

\* lines 922-924 for a given Tel-Aviv list
BaseMerge(ta) ==
    /\ shelters_ta' = ta
    /\ merged' = MergeLists(ta,
                            WithinDistance(shelters_muni, SEARCH_RADIUS_M),
                            WithinDistance(shelters_gov_all,
                                           SEARCH_RADIUS_M + GOV_BASE_EXTRA_M),
                            shelters_osm)
    /\ all_shelters' = deduplicate_shelters(merged')
    /\ pass' = 0
    /\ pc' = "expand"

\* lines 917-924 inside TA_BOUNDS: the Tel-Aviv connector, then the merge
FetchTa ==
    /\ pc = "ta"
    /\ is_in_tel_aviv(query.lat, query.lon)
    /\ \E resp \in TaResponses(query) :
       \E resp2 \in (IF (resp.status = "ok" /\ resp.features = << >>) THEN ({ Fail, Ok(<< T1(query), (Feature(query, 2600, 3)), T2(query) >>) })
                     ELSE {NoResp}) :
         /\ BaseMerge(fetch_shelters_arcgis(query.lat, query.lon, resp, resp2))
         /\ io' = [io EXCEPT !.ta = resp, !.ta2 = resp2]
    /\ calls' = Append(calls, << "ta", SEARCH_RADIUS_M >>)
    /\ UNCHANGED << reply, _itm_to_wgs, query, shelters_muni, shelters_gov_all, shelters_osm, result,
                    _govmap_cache, nqueries >>

\* lines 917-924 outside TA_BOUNDS
SkipTa ==
    /\ pc = "ta"
    /\ ~is_in_tel_aviv(query.lat, query.lon)
    /\ BaseMerge(<< >>)
    /\ UNCHANGED << reply, _itm_to_wgs, query, shelters_muni, shelters_gov_all, shelters_osm, result,
                    _govmap_cache, calls, io, nqueries >>

\* mutant: the expansion goes on while fewer than MAX_RESULTS records are there
EnoughOrExhaustedAtMax(n, p) == n >= MAX_RESULTS \/ p >= Len(EXPANDED_RADII)

\* lines 927-929: the loop ends when the radii are used up or on the break
EnoughOrExhausted(n, p) == n >= MIN_RESULTS \/ p >= Len(EXPANDED_RADII)

\* lines 930-935: one pass of the expansion loop
ExpandPass ==
    /\ pc = "expand"
    /\ ~EnoughOrExhausted(Len(all_shelters), pass)
    /\ LET expanded_r == EXPANDED_RADII[pass + 1]
       IN /\ \E resp \in OsmResponses(query, expanded_r) :
               LET r == fetch_shelters_osm(query.lat, query.lon, expanded_r, resp)
               IN /\ io' = [io EXCEPT !.osm = resp]
                  /\ IF r.raised
                     THEN /\ pc' = "raised"
                          /\ reply' = ReplyOf(TRUE, << >>)
                          /\ UNCHANGED << shelters_osm, merged, all_shelters, pass >>
                     ELSE /\ shelters_osm' = r.val
                          /\ merged' = MergeLists(shelters_ta,
                                          WithinDistance(shelters_muni, expanded_r),
                                          WithinDistance(shelters_gov_all, expanded_r),
                                          r.val)
                          /\ all_shelters' = deduplicate_shelters(merged')
                          /\ pass' = pass + 1
                          /\ pc' = "expand"
                          /\ UNCHANGED reply
          /\ calls' = Append(calls, << "osm", expanded_r >>)
    /\ UNCHANGED << _itm_to_wgs, query, shelters_muni, shelters_gov_all, shelters_ta, result,
                    _govmap_cache, nqueries >>

\* mutant: the list is cut without being sorted
RankUnsorted(shelters) == (SubSeq(shelters, 1, IF Len(shelters) < MAX_RESULTS THEN Len(shelters) ELSE MAX_RESULTS))

\* lines 937-939
Rank(shelters) == (SubSeq((SortByDistance(shelters)), 1, IF Len((SortByDistance(shelters))) < MAX_RESULTS THEN Len((SortByDistance(shelters))) ELSE MAX_RESULTS))

Finish ==
    /\ pc = "expand"
    /\ EnoughOrExhausted(Len(all_shelters), pass)
    /\ all_shelters' = SortByDistance(all_shelters)
    /\ result' = Rank(all_shelters)
    /\ reply' = ReplyOf(FALSE, result')
    /\ pc' = "done"
    /\ UNCHANGED << _itm_to_wgs, query, shelters_muni, shelters_gov_all, shelters_osm, shelters_ta,
                    merged, pass, _govmap_cache, calls, io, nqueries >>

\* handle_location calls fetch_shelters for the next location message
NewQuery ==
    /\ pc \in {"done", "raised"}
    /\ nqueries < MaxQueries
    /\ query' \in ({SiteTelAviv, ([lat |-> 3553000, lon |-> 3276000])})
    /\ pc' = "muni"
    /\ shelters_muni' = << >> /\ shelters_gov_all' = << >>
    /\ shelters_osm' = << >> /\ shelters_ta' = << >>
    /\ merged' = << >> /\ all_shelters' = << >>
    /\ pass' = 0
    /\ result' = << >>
    /\ calls' = << >>
    /\ io' = NoIo
    /\ nqueries' = nqueries + 1
    /\ reply' = "none"
    /\ UNCHANGED << _govmap_cache, _itm_to_wgs >>

Init == PipeInit /\ DdIdle /\ CnIdle /\ GcIdle /\ RcIdle /\ MgIdle /\ BotIdle

Next ==
    \/ FetchMuni /\ UNCHANGED << ddVars, cnVars, gcVars, rcVars, mgVars, botVars >>
    \/ FetchGov /\ UNCHANGED << ddVars, cnVars, gcVars, rcVars, mgVars, botVars >>
    \/ FetchOsm /\ UNCHANGED << ddVars, cnVars, gcVars, rcVars, mgVars, botVars >>
    \/ FetchTa /\ UNCHANGED << ddVars, cnVars, gcVars, rcVars, mgVars, botVars >>
    \/ SkipTa /\ UNCHANGED << ddVars, cnVars, gcVars, rcVars, mgVars, botVars >>
    \/ ExpandPass /\ UNCHANGED << ddVars, cnVars, gcVars, rcVars, mgVars, botVars >>
    \/ Finish /\ UNCHANGED << ddVars, cnVars, gcVars, rcVars, mgVars, botVars >>
    \/ NewQuery /\ UNCHANGED << ddVars, cnVars, gcVars, rcVars, mgVars, botVars >>

Spec == Init /\ [][Next]_vars

\* ------------------------------ deduplicate_shelters on arbitrary lists --

Shelter(source, dlat) ==
    [id |-> << source, "", dlat >>, lat |-> (SiteTelAviv).lat + dlat, lon |-> (SiteTelAviv).lon,
     distance |-> (IF dlat < 0 THEN -dlat ELSE dlat), source |-> source]


SeqsUpTo(S, n) == UNION { [1..m -> S] : m \in 0..n }

DedupInit ==
    /\ PipeIdle /\ CnIdle /\ GcIdle /\ RcIdle /\ MgIdle /\ BotIdle
    /\ dd_in \in SeqsUpTo(({ Shelter(src, d) : src \in {"osm", "gov", "ta"}, d \in {0, 40, 80, 200} }), MaxLen)
    /\ dd_out = << >>
    /\ dd_i = 1

\* one iteration of `for s in shelters` (lines 881-891)
DedupLoop ==
    /\ dd_i <= Len(dd_in)
    /\ dd_out' = DedupStep(dd_out, dd_in[dd_i], DEDUP_THRESHOLD_M)
    /\ dd_i' = dd_i + 1
    /\ UNCHANGED << dd_in, pipeVars, cnVars, gcVars, rcVars, mgVars, botVars >>

DedupNext == DedupLoop

SpecDedup == DedupInit /\ [][DedupNext]_vars

DedupDone == dd_i = Len(dd_in) + 1

\* -------------------------------- one connector on an arbitrary response --
MaxFeatures == 3     \* longest feature list of the connector harness


ArcgisPool ==
    { Feature((SiteTelAviv), 100, 1), Feature((SiteTelAviv), 700, 2), ([Feature(((SiteTelAviv)), 200, 9) EXCEPT !.y = AbsentV]),
      ([Feature(((SiteTelAviv)), 200, 9) EXCEPT !.geom = "null"]), ([Feature((SiteTelAviv), 200, 9) EXCEPT !.geom = "absent"]), ([Feature((SiteTelAviv), 200, 9) EXCEPT !.attrs = "bad"]),
      ([Feature((SiteTelAviv), 200, 9) EXCEPT !.y = StrV]),
      [Feature((SiteTelAviv), 200, 8) EXCEPT !.y = 95 * ONE_DEGREE] }

OsmPool ==
    { OsmNode((SiteTelAviv), 100, 1), OsmWay((SiteTelAviv), 700, 2), ([OsmNode(((SiteTelAviv)), 300, 9) EXCEPT !.id = AbsentV]),
      ([OsmNode((SiteTelAviv), 300, 9) EXCEPT !.lat = AbsentV]), ([OsmNode((SiteTelAviv), 300, 9) EXCEPT !.attrs = "bad"]),
      [OsmNode((SiteTelAviv), 300, 8) EXCEPT !.lat = 95 * ONE_DEGREE] }


ConnInit ==
    /\ PipeIdle /\ DdIdle /\ GcIdle /\ RcIdle /\ MgIdle /\ BotIdle
    /\ cn_conn \in {"muni", "ta", "osm", "gov"}
    /\ cn_resp \in { Ok(f) : f \in SeqsUpTo(CASE cn_conn \in {"muni", "ta"} -> ArcgisPool
                                              [] cn_conn = "osm" -> OsmPool
                                              [] OTHER -> ({ G1((SiteTelAviv)), G3((SiteTelAviv)), ([Hit((SiteTelAviv), 700, 8) EXCEPT !.X = NoneV]), ([Hit((SiteTelAviv), 700, 9) EXCEPT !.label = "null"]) }), MaxFeatures) }
    /\ cn_out = NotRun

RunMuni ==
    /\ cn_conn = "muni" /\ ~cn_out.run
    /\ cn_out' = Ran(Return(fetch_shelters_municipal((SiteTelAviv).lat, (SiteTelAviv).lon,
                                WIDE_RADIUS_M, << Fail, cn_resp >>)))
    /\ UNCHANGED << cn_conn, cn_resp, pipeVars, ddVars, gcVars, rcVars, mgVars, botVars >>

RunTa ==
    /\ cn_conn = "ta" /\ ~cn_out.run
    /\ cn_out' = Ran(Return(fetch_shelters_arcgis((SiteTelAviv).lat, (SiteTelAviv).lon,
                                cn_resp, Ok(<< >>))))
    /\ UNCHANGED << cn_conn, cn_resp, pipeVars, ddVars, gcVars, rcVars, mgVars, botVars >>

RunOsm ==
    /\ cn_conn = "osm" /\ ~cn_out.run
    /\ cn_out' = Ran(fetch_shelters_osm((SiteTelAviv).lat, (SiteTelAviv).lon, WIDE_RADIUS_M, cn_resp))
    /\ UNCHANGED << cn_conn, cn_resp, pipeVars, ddVars, gcVars, rcVars, mgVars, botVars >>

RunGov ==
    /\ cn_conn = "gov" /\ ~cn_out.run
    /\ cn_out' = Ran(fetch_shelters_govmap((SiteTelAviv).lat, (SiteTelAviv).lon, WIDE_RADIUS_M,
                         Ok(Address("Haifa", "", "")), NoResp,
                         [c \in Cities |-> [k \in 1..SEARCH_PREFIXES |->
                             IF k = 1 THEN cn_resp ELSE Ok(<< >>)]],
                         << >>))
    /\ UNCHANGED << cn_conn, cn_resp, pipeVars, ddVars, gcVars, rcVars, mgVars, botVars >>

ConnNext == RunMuni \/ RunTa \/ RunOsm \/ RunGov

SpecConn == ConnInit /\ [][ConnNext]_vars

\* ------------------ a series of fetch_shelters_govmap calls, one cache ----


\* the text search answers the two spellings of the town with overlapping
\* hit lists
CacheIndex(city, k) ==
    CASE city = "Qiryat Gat" /\ k = 1 -> << (Hit((SiteTelAviv), 160, 1)), (Hit((SiteTelAviv), 2800, 2)) >>
      [] city = "Qiryat Gat" /\ k = 2 -> << (Hit((SiteTelAviv), 160, 1)), (Hit((SiteTelAviv), -400, 3)) >>
      [] city = "Qiryyat Gat" /\ k = 1 -> << (Hit((SiteTelAviv), 160, 1)), (Hit((SiteTelAviv), 6000, 4)) >>
      [] city = "Haifa" /\ k = 1 -> << (Hit((SiteTelAviv), -400, 3)) >>
      [] OTHER -> << >>

CacheAnswers == [c \in Cities |-> [k \in 1..SEARCH_PREFIXES |-> Ok(CacheIndex(c, k))]]

\* all searches answered; none; those of one spelling failing; a hit without
\* coordinates; a hit with a null label
CacheSearches ==
    { CacheAnswers,
      [c \in Cities |-> [k \in 1..SEARCH_PREFIXES |-> Fail]],
      [CacheAnswers EXCEPT !["Qiryat Gat"] = [k \in 1..SEARCH_PREFIXES |-> Fail]],
      [CacheAnswers EXCEPT !["Qiryat Gat"][2] = Ok(<< ([Hit((SiteTelAviv), 700, 8) EXCEPT !.X = NoneV]), (Hit((SiteTelAviv), -400, 3)) >>)],
      [CacheAnswers EXCEPT !["Qiryyat Gat"][1] = Ok(<< (Hit((SiteTelAviv), 6000, 4)), ([Hit((SiteTelAviv), 700, 9) EXCEPT !.label = "null"]) >>)] }

\* Nominatim: no answer, the town, the town with a suburb under the other
\* spelling, another town
CacheNominatim ==
    { Fail, Ok(Address("Qiryat Gat", "", "")), Ok(Address("Qiryat Gat", "", "Qiryyat Gat")),
      Ok(Address("Qiryyat Gat", "", "")), Ok(Address("Haifa", "", "")) }

CacheInit ==
    /\ PipeIdle /\ DdIdle /\ CnIdle /\ RcIdle /\ MgIdle /\ BotIdle
    /\ gc_call = ([n |-> 0])

\* one call of fetch_shelters_govmap(lat, lon, radius_m) on the shared cache
GovCall ==
    /\ gc_call.n < MaxQueries
    /\ \E q \in ({(SiteTelAviv), ([lat |-> SiteTelAviv.lat + 1500, lon |-> SiteTelAviv.lon])}), radius_m \in ({SEARCH_RADIUS_M, WIDE_RADIUS_M}), nom \in CacheNominatim,
          search \in CacheSearches :
         LET r == fetch_shelters_govmap(q.lat, q.lon, radius_m, nom, NoResp, search,
                                        _govmap_cache)
         IN /\ _govmap_cache' = r.cache
            /\ gc_call' = [n |-> gc_call.n + 1, lat |-> q.lat, lon |-> q.lon,
                           radius_m |-> radius_m, search |-> search,
                           prev |-> IF gc_call.n = 0 THEN << >>
                                    ELSE << gc_call.lat, gc_call.lon >>,
                           clean |-> /\ gc_call.n = 0 \/ gc_call.clean
                                     /\ search = CacheAnswers /\ nom.status = "ok",
                           before |-> _govmap_cache, names |-> r.names,
                           searched |-> r.searched, writes |-> r.writes,
                           raised |-> r.raised, val |-> r.val]
    /\ UNCHANGED << reply, _itm_to_wgs, query, pc, shelters_muni, shelters_gov_all, shelters_osm,
                    shelters_ta, merged, all_shelters, pass, result, calls, io,
                    nqueries, ddVars, cnVars, rcVars, mgVars, botVars >>

CacheNext == GovCall

SpecCache == CacheInit /\ [][CacheNext]_vars

\* ------------- two fetch_shelters_govmap calls interleaved, one cache -----

RaceSite(p) == IF p = 1 THEN (SiteTelAviv) ELSE ([lat |-> SiteTelAviv.lat + 1500, lon |-> SiteTelAviv.lon])


RaceLocal(p, nom, search) ==
    [lat |-> RaceSite(p).lat, lon |-> RaceSite(p).lon, radius_m |-> WIDE_RADIUS_M,
     nom |-> nom, search |-> search,
     place_names |-> << >>, i |-> 1, all_cached |-> << >>, cities_to_fetch |-> << >>,
     j |-> 1, k |-> 1, city_shelters |-> << >>, written |-> << >>, val |-> << >>]

RaceInit ==
    /\ PipeIdle /\ DdIdle /\ CnIdle /\ GcIdle /\ MgIdle /\ BotIdle
    /\ rc_pc = [p \in ({1, 2}) |-> "resolve"]
    /\ rc_local \in [({1, 2}) -> { RaceLocal(p, nom, search) :
                                   p \in ({1, 2}), nom \in ({ Ok(Address("Qiryat Gat", "", "")), Ok(Address("Qiryyat Gat", "", "")) }),
                                   search \in CacheSearches }]
    /\ \A p \in ({1, 2}) : rc_local[p].lat = RaceSite(p).lat

\* lines 523-537: the resolver and the spelling variants
RcResolve(p) ==
    /\ rc_pc[p] = "resolve"
    /\ LET l == rc_local[p]
           names == reverse_geocode_names(l.lat, l.lon, l.nom, NoResp)
       IN IF ~_itm_to_wgs \/ names = << >>
          THEN rc_pc' = [rc_pc EXCEPT ![p] = "done"] /\ UNCHANGED rc_local
          ELSE /\ rc_local' = [rc_local EXCEPT ![p].place_names = Expand(<< >>, names)]
               /\ rc_pc' = [rc_pc EXCEPT ![p] = "read"]
    /\ UNCHANGED << pipeVars, ddVars, cnVars, gcVars, mgVars, botVars >>

\* lines 544-550: one iteration, the cache read for one candidate
RcRead(p) ==
    /\ rc_pc[p] = "read"
    /\ LET l == rc_local[p]
           city == l.place_names[l.i]
           l1 == IF city \in DOMAIN _govmap_cache
                 THEN [l EXCEPT !.all_cached = MergeNewKeys(@, _govmap_cache[city])]
                 ELSE [l EXCEPT !.cities_to_fetch = Append(@, city)]
           l2 == [l1 EXCEPT !.i = l.i + 1]
       IN /\ rc_local' = [rc_local EXCEPT ![p] = l2]
          /\ rc_pc' = [rc_pc EXCEPT ![p] =
                          IF l2.i <= Len(l2.place_names) THEN "read"
                          ELSE IF l2.cities_to_fetch = << >> THEN "filter"
                          ELSE "search"]
    /\ UNCHANGED << pipeVars, ddVars, cnVars, gcVars, mgVars, botVars >>

\* lines 557-599: one keyword search for the city being fetched
RcSearch(p) ==
    /\ rc_pc[p] = "search"
    /\ LET l == rc_local[p]
           resp == l.search[l.cities_to_fetch[l.j]][l.k]
           r == IF resp.status = "ok"
                THEN GovItems(l.city_shelters, resp.features, l.all_cached)
                ELSE Return(l.city_shelters)
       IN IF r.raised
          THEN rc_pc' = [rc_pc EXCEPT ![p] = "raised"] /\ UNCHANGED rc_local
          ELSE /\ rc_local' = [rc_local EXCEPT ![p].city_shelters = r.val,
                                                ![p].k = l.k + 1]
               /\ rc_pc' = [rc_pc EXCEPT ![p] =
                               IF l.k + 1 > SEARCH_PREFIXES THEN "write" ELSE "search"]
    /\ UNCHANGED << pipeVars, ddVars, cnVars, gcVars, mgVars, botVars >>

\* lines 601-603: the cache write for the city just fetched
RcWrite(p) ==
    /\ rc_pc[p] = "write"
    /\ LET l == rc_local[p]
           city == l.cities_to_fetch[l.j]
       IN /\ _govmap_cache' = [c \in DOMAIN _govmap_cache \cup {city} |->
                                  IF c = city THEN l.city_shelters ELSE _govmap_cache[c]]
          /\ rc_local' = [rc_local EXCEPT ![p].all_cached = @ \o l.city_shelters,
                                           ![p].written = Append(@, city),
                                           ![p].city_shelters = << >>,
                                           ![p].j = l.j + 1, ![p].k = 1]
          /\ rc_pc' = [rc_pc EXCEPT ![p] =
                          IF l.j + 1 > Len(l.cities_to_fetch) THEN "filter" ELSE "search"]
    /\ UNCHANGED << reply, _itm_to_wgs, query, pc, shelters_muni, shelters_gov_all, shelters_osm,
                    shelters_ta, merged, all_shelters, pass, result, calls, io,
                    nqueries, ddVars, cnVars, gcVars, mgVars, botVars >>

\* lines 606-615: the radius filter and the sort
RcFilter(p) ==
    /\ rc_pc[p] = "filter"
    /\ LET l == rc_local[p]
       IN rc_local' = [rc_local EXCEPT ![p].val =
                          SortByDistance(GovInRadius(l.all_cached, l.lat, l.lon,
                                                     l.radius_m))]
    /\ rc_pc' = [rc_pc EXCEPT ![p] = "done"]
    /\ UNCHANGED << pipeVars, ddVars, cnVars, gcVars, mgVars, botVars >>

RaceNext ==
    \E p \in ({1, 2}) : RcResolve(p) \/ RcRead(p) \/ RcSearch(p) \/ RcWrite(p) \/ RcFilter(p)

SpecRace == RaceInit /\ [][RaceNext]_vars

\* --------------- fetch_shelters_municipal at points around the boxes ------
\* latitudes and longitudes on either side of the edges of the registry's
\* boxes widened by the margin, inside the boxes, and far away
GateLats ==
    { MUNICIPAL_ARCGIS[i].bbox[1] - BBOX_MARGIN_LAT + d : i \in {1, 2}, d \in {-1, 0} }
    \cup { MUNICIPAL_ARCGIS[i].bbox[3] + BBOX_MARGIN_LAT + d : i \in {1, 2}, d \in {0, 1} }
    \cup { MUNICIPAL_ARCGIS[1].bbox[1] - 1, SiteTelAviv.lat, 3647000 }


\* each endpoint answers with a shelter 100 m north of the point, or not at all
GateResponses(q) ==
    { << r1, r2 >> : r1 \in { Fail, Ok(<< Feature(q, 100, 1) >>) },
                     r2 \in { Fail, Ok(<< Feature(q, 100, 2) >>) } }

GateInit ==
    /\ PipeIdle /\ DdIdle /\ CnIdle /\ GcIdle /\ RcIdle /\ BotIdle
    /\ mg_site \in [lat : GateLats, lon : ({ MUNICIPAL_ARCGIS[1].bbox[2] - BBOX_MARGIN_LON + d : d \in {-1, 0} } \cup { MUNICIPAL_ARCGIS[2].bbox[4] + BBOX_MARGIN_LON + d : d \in {0, 1} } \cup { SiteTelAviv.lon })]
    /\ mg_out = NotRun

\* requested: the registry entries a request was sent to (lines 831, 838-855)
RunGate ==
    /\ ~mg_out.run
    /\ \E resp \in GateResponses(mg_site) :
         mg_out' = [run |-> TRUE, raised |-> FALSE,
                    requested |-> Relevant(mg_site.lat, mg_site.lon),
                    val |-> fetch_shelters_municipal(mg_site.lat, mg_site.lon,
                                                     SEARCH_RADIUS_M, resp)]
    /\ UNCHANGED << mg_site, pipeVars, ddVars, cnVars, gcVars, rcVars, botVars >>

GateNext == RunGate

SpecGate == GateInit /\ [][GateNext]_vars

\* ------------------------------ the tables checkins and reviews ---------
\* A string that may hold colons is the sequence of its colon-free pieces:
\* "osm:node:5" is << "osm", "node", "5" >>, and two strings are equal when
\* their pieces are.  A row of checkins is [user_id, shelter_id,
\* checked_in_at]; a row of reviews is [shelter_id, shelter_addr, user_id,
\* text, photo_id].
CHECKIN_TTL_H == 2
MaxClock == 4         \* hours the clock runs
MaxReviews == 1       \* rows the table reviews takes

\* the session's result list: one record of each connector
BotResults ==
    << [id |-> << "ta", "7" >>, address |-> "a1"],
       [id |-> << "muni", "Holon", "12" >>, address |-> "a2"],
       [id |-> << "gov", "31" >>, address |-> "a3"],
       [id |-> << "osm", "node", "5" >>, address |-> "a4"] >>

\* mutant: a plain INSERT
do_checkin_insert(rows, user_id, shelter, t) ==
    rows \cup { [user_id |-> user_id, shelter_id |-> shelter.id, checked_in_at |-> t] }

\* INSERT ... ON CONFLICT(user_id) DO UPDATE, checked_in_at = NOW()
do_checkin(rows, user_id, shelter, t) ==
    IF \E r \in rows : r.user_id = user_id
    THEN { IF r.user_id = user_id
           THEN [r EXCEPT !.shelter_id = shelter.id, !.checked_in_at = t]
           ELSE r : r \in rows }
    ELSE rows \cup { [user_id |-> user_id, shelter_id |-> shelter.id,
                      checked_in_at |-> t] }

do_checkout(rows, user_id) == { r \in rows : r.user_id # user_id }

\* mutant: no cutoff
get_buddies_ever(rows, shelter_id, exclude_user_id, t) ==
    { r \in rows : r.shelter_id = shelter_id /\ r.user_id # exclude_user_id }

\* cutoff = now - CHECKIN_TTL_H hours
get_buddies(rows, shelter_id, exclude_user_id, t) ==
    { r \in rows : /\ r.shelter_id = shelter_id
                   /\ r.user_id # exclude_user_id
                   /\ r.checked_in_at > t - CHECKIN_TTL_H }

\* fetchrow: the set of the one row, or the empty set for None
get_my_checkin(rows, user_id, t) ==
    { r \in rows : r.user_id = user_id /\ r.checked_in_at > t - CHECKIN_TTL_H }

\* the rows of the shelter, newest first, at most limit of them
get_reviews(rows, shelter_id, limit) ==
    LET own == SelectSeq(rows, LAMBDA r : r.shelter_id = shelter_id)
    IN [i \in 1..(IF Len(own) < limit THEN Len(own) ELSE limit) |->
            own[Len(own) + 1 - i]]

\* query.data.split(":", 2) of callback data with two colons or more
split2(data) == << << data[1] >>, << data[2] >>, SubSeq(data, 3, Len(data)) >>

\* ------------------- check-ins made, ended and read as time passes -------
DbInit ==
    /\ PipeIdle /\ DdIdle /\ CnIdle /\ GcIdle /\ RcIdle /\ MgIdle
    /\ BotIdle

\* do_checkin(user.id, ..., shelter) for a record of a result list, and the
\* buddies read after it (line 1227); text notes whether the user had a row
DoCheckin(u) ==
    /\ \E i \in 1..Len(BotResults) :
          /\ checkins' = do_checkin(checkins, u, BotResults[i], now)
          /\ sent' = [NoUpdate EXCEPT !.on = << "checkin" >>, !.user = u,
                          !.text = IF \E r \in checkins : r.user_id = u
                                   THEN "moved" ELSE "new",
                          !.buddies = get_buddies(checkins', BotResults[i].id, u, now)]
    /\ UNCHANGED << reviews, now, user_data, conversation, markup,
                    pipeVars, ddVars, cnVars, gcVars, rcVars, mgVars >>

\* lines 1245-1249
cb_checkout(u) ==
    /\ checkins' = do_checkout(checkins, u)
    /\ sent' = [NoUpdate EXCEPT !.on = << "checkout" >>, !.user = u,
                    !.text = "checkout_done"]
    /\ UNCHANGED << reviews, now, user_data, conversation, markup,
                    pipeVars, ddVars, cnVars, gcVars, rcVars, mgVars >>

\* lines 1252-1272: buddies holds the rows the reply names
cmd_status(u) ==
    /\ LET ci == get_my_checkin(checkins, u, now)
       IN sent' = IF ci = {}
                  THEN [NoUpdate EXCEPT !.on = << "/status" >>, !.user = u,
                            !.text = "not_checked"]
                  ELSE [NoUpdate EXCEPT !.on = << "/status" >>, !.user = u,
                            !.text = "status",
                            !.buddies = get_buddies(checkins,
                                            (CHOOSE r \in ci : TRUE).shelter_id, u, now)]
    /\ UNCHANGED << checkins, reviews, now, user_data, conversation, markup,
                    pipeVars, ddVars, cnVars, gcVars, rcVars, mgVars >>

\* an hour passes between two updates
Tick ==
    /\ now < MaxClock
    /\ now' = now + 1
    /\ UNCHANGED << checkins, reviews, user_data, conversation, markup, sent,
                    pipeVars, ddVars, cnVars, gcVars, rcVars, mgVars >>

DbNext ==
    \/ \E u \in {1, 2} : DoCheckin(u) \/ cb_checkout(u) \/ cmd_status(u)
    \/ Tick

SpecDb == DbInit /\ [][DbNext]_vars

\* ------------------- one user's session of button presses and messages ---
\* handle_location has stored the result list (line 1066)
BotInit ==
    /\ PipeIdle /\ DdIdle /\ CnIdle /\ GcIdle /\ RcIdle /\ MgIdle
    /\ checkins = {} /\ reviews = << >> /\ now = 0
    /\ user_data = [shelters |-> BotResults, rv_id |-> << >>, rv_addr |-> << >>,
                    rv_text |-> "None", rv_from |-> 0]
    /\ conversation = "END"
    /\ markup = [checkin |-> << >>, review |-> << >>]
    /\ sent = NoUpdate

\* lines 1115-1188, the button "select:idx"; the card carries the buttons
\* checkin:{id}:{idx} and review:{id}:{address}
cb_select_shelter(idx) ==
    /\ idx < Len(user_data.shelters)
    /\ LET s == user_data.shelters[idx + 1]
       IN /\ markup' = [checkin |-> << "checkin" >> \o s.id
                                       \o << (<< "0", "1", "2", "3" >>)[idx + 1] >>,
                        review |-> << "review" >> \o s.id \o << s.address >>]
          /\ sent' = [on |-> << "select" >>, user |-> 1, text |-> "card",
                      buddies |-> get_buddies(checkins, s.id, 1, now),
                      reviews |-> get_reviews(reviews, s.id, 3)]
    /\ UNCHANGED << checkins, reviews, now, user_data, conversation,
                    pipeVars, ddVars, cnVars, gcVars, rcVars, mgVars >>

\* lines 1217-1242, a press of the card's check-in button
cb_checkin ==
    /\ markup # [checkin |-> << >>, review |-> << >>]
    /\ LET shelter_id == split2(markup.checkin)[2]
           found == SelectSeq(user_data.shelters, LAMBDA s : s.id = shelter_id)
       IN IF found = << >>
          THEN /\ sent' = [NoUpdate EXCEPT !.on = markup.checkin, !.text = "answer"]
               /\ UNCHANGED checkins
          ELSE /\ checkins' = do_checkin(checkins, 1, found[1], now)
               /\ sent' = [NoUpdate EXCEPT !.on = markup.checkin, !.text = "checkin_done",
                               !.buddies = get_buddies(checkins', shelter_id, 1, now)]
    /\ UNCHANGED << reviews, now, user_data, conversation, markup,
                    pipeVars, ddVars, cnVars, gcVars, rcVars, mgVars >>

\* lines 1277-1288, the entry point of review_conv: a press of the card's
\* review button outside a conversation; rv_from notes the pressed card
cb_review_start ==
    /\ markup # [checkin |-> << >>, review |-> << >>]
    /\ conversation = "END"
    /\ LET parts == split2(markup.review)
       IN user_data' = [user_data EXCEPT
              !.rv_id = parts[2], !.rv_addr = parts[3],
              !.rv_from = CHOOSE i \in 1..Len(user_data.shelters) :
                             markup.review[Len(markup.review)]
                               = user_data.shelters[i].address]
    /\ conversation' = "REVIEW_TEXT"
    /\ sent' = [NoUpdate EXCEPT !.on = markup.review, !.text = "review_ask"]
    /\ UNCHANGED << checkins, reviews, now, markup,
                    pipeVars, ddVars, cnVars, gcVars, rcVars, mgVars >>

\* lines 1389-1397: the handler of a message in a conversation state: the
\* first handler of the state whose filter accepts it (filters.TEXT accepts
\* every message with text, commands too), else the first fallback
Dispatch(state, msg) ==
    CASE state = "REVIEW_TEXT" /\ msg.text # "None" -> "review_text"
      [] state = "REVIEW_PHOTO" /\ (msg.photo \/ msg.text # "None") -> "review_photo"
      [] OTHER -> IF msg.text = "/cancel" THEN "review_cancel" ELSE "none"

\* a message to the bot while the conversation is on (lines 1291-1314)
review_conv ==
    /\ conversation # "END"
    /\ \E msg \in { [text |-> "hello", photo |-> FALSE], [text |-> "/skip", photo |-> FALSE],
                    [text |-> "/cancel", photo |-> FALSE], [text |-> "None", photo |-> TRUE] } :
         LET handler == Dispatch(conversation, msg)
             on == << IF msg.photo THEN "photo" ELSE msg.text >>
         IN CASE handler = "review_text" ->
                   /\ user_data' = [user_data EXCEPT !.rv_text =
                                       IF msg.text # "/skip" THEN msg.text ELSE "None"]
                   /\ conversation' = "REVIEW_PHOTO"
                   /\ sent' = [NoUpdate EXCEPT !.on = on, !.text = "review_photo"]
                   /\ UNCHANGED reviews
              [] handler = "review_photo" /\ ~msg.photo /\ msg.text # "/skip" ->
                   /\ sent' = [NoUpdate EXCEPT !.on = on, !.text = "photo_or_skip"]
                   /\ UNCHANGED << reviews, user_data, conversation >>
              [] handler = "review_photo" /\ (msg.photo \/ msg.text = "/skip") ->
                   /\ Len(reviews) < MaxReviews
                   /\ reviews' = Append(reviews,
                          [shelter_id |-> user_data.rv_id, shelter_addr |-> user_data.rv_addr,
                           user_id |-> 1, text |-> user_data.rv_text,
                           photo_id |-> IF msg.photo THEN "file" ELSE "None"])
                   /\ conversation' = "END"
                   /\ sent' = [NoUpdate EXCEPT !.on = on, !.text = "review_saved"]
                   /\ UNCHANGED user_data
              [] handler = "review_cancel" ->
                   /\ conversation' = "END"
                   /\ sent' = [NoUpdate EXCEPT !.on = on, !.text = "review_cancel"]
                   /\ UNCHANGED << reviews, user_data >>
              [] OTHER -> UNCHANGED << reviews, user_data, conversation, sent >>
    /\ UNCHANGED << checkins, now, markup,
                    pipeVars, ddVars, cnVars, gcVars, rcVars, mgVars >>

BotNext ==
    \/ \E idx \in 0..3 : cb_select_shelter(idx)
    \/ cb_checkin
    \/ cb_review_start
    \/ review_conv

SpecBot == BotInit /\ [][BotNext]_vars

\* ============================================================ claims ====
Reorderings(seq) ==
    { [i \in 1..Len(seq) |-> seq[f[i]]] :
        f \in { g \in [1..Len(seq) -> 1..Len(seq)] :
                  \A i, j \in 1..Len(seq) : g[i] = g[j] => i = j } }

\* ---- well-formed records of a response, and where they must show up ----
WellFormedFeature(f) ==
    f.geom = "obj" /\ f.y >= ONE_DEGREE /\ f.x > 0 /\ f.attrs = "ok"

WellFormedElement(el) ==
    /\ el.attrs = "ok" /\ el.id # AbsentV
    /\ \/ el.lat > 0 /\ el.lon > 0
       \/ el.clat > 0 /\ el.clon > 0

ElementLat(el) == IF el.lat > 0 THEN el.lat ELSE el.clat
ElementLon(el) == IF el.lon > 0 THEN el.lon ELSE el.clon

WellFormedHit(h) == h.X > 0 /\ h.Y > 0 /\ h.label = "ok"

HasRecordAt(shelters, source, lat, lon) ==
    \E r \in SetOf(shelters) : r.source = source /\ r.lat = lat /\ r.lon = lon

\* the record a connector owes for the i-th entry of a response
Owed(conn, x) ==
    CASE conn \in {"muni", "ta"} ->
           [due |-> WellFormedFeature(x), lat |-> x.y, lon |-> x.x]
      [] conn = "osm" ->
           [due |-> WellFormedElement(x), lat |-> ElementLat(x), lon |-> ElementLon(x)]
      [] OTHER ->
           [due |-> WellFormedHit(x), lat |-> x.Y + ITM_OFFSET_Y, lon |-> x.X + ITM_OFFSET_X]

\* C1: fetch_shelters never propagates an exception, whatever the connectors
\* get from the network, and returns the empty list when every connector
\* fails.
AllConnectorsFailed ==
    /\ \A i \in 1..Len(io.muni) : io.muni[i].status \in {"fail", "none"}
    /\ io.nom.status = "fail"
    /\ io.osm.status = "fail"
    /\ io.ta.status \in {"fail", "none"}

C1_NeverRaises ==
    /\ pc # "raised"
    /\ (pc = "done" /\ AllConnectorsFailed) => result = << >>

C4_Idempotent ==
    DedupDone => SetOf(deduplicate_shelters(dd_out)) = SetOf(dd_out)

\* C6: an incoming record within 50 m of an accepted record of equal
\* priority is discarded and the accepted records stay as they are; an
\* accepted record is replaced only by a record of strictly higher priority.
C6_TieBreak ==
    [][DedupLoop =>
        LET s == dd_in[dd_i]
        IN /\ (\E i \in 1..Len(dd_out) :
                   /\ Near(s, dd_out[i], DEDUP_THRESHOLD_M)
                   /\ priority(s.source) = priority(dd_out[i].source))
                => dd_out' = dd_out
           /\ \A i \in 1..Len(dd_out) :
                 dd_out'[i] # dd_out[i] =>
                    priority(dd_out'[i].source) > priority(dd_out[i].source)]_vars

\* C10: a malformed feature costs only itself: every well-formed feature of
\* the same response, before or after it, is returned by the connector.
C10_PerRecordDrop ==
    cn_out.run =>
      /\ ~cn_out.raised
      /\ \A i \in 1..Len(cn_resp.features) :
            LET o == Owed(cn_conn, cn_resp.features[i])
            IN o.due => HasRecordAt(cn_out.val, cn_conn, o.lat, o.lon)

\* C3 as amended: a pair of records of different priority closer than 50 m,
\* with no third input record within 50 m of either, leaves exactly its
\* higher-priority record in the output, in every order of the input; when
\* all close pairs of the input are of that kind, the set of kept records
\* is the same for every order.
IsolatedPair(a, b, S) ==
    /\ a # b
    /\ Near(a, b, DEDUP_THRESHOLD_M)
    /\ priority(a.source) # priority(b.source)
    /\ \A c \in S \ {a, b} :
          ~Near(c, a, DEDUP_THRESHOLD_M) /\ ~Near(c, b, DEDUP_THRESHOLD_M)

OnlyIsolatedPairs(S) ==
    \A a, b \in S : (a # b /\ Near(a, b, DEDUP_THRESHOLD_M)) => IsolatedPair(a, b, S)

Delivered == { r \in SetOf(io.muni) \cup {io.nom, io.ov, io.osm, io.ta, io.ta2} :
                 r.status # "none" }

SearchesDelivered ==
    { io.search[c][k] : c \in Cities, k \in 1..SEARCH_PREFIXES }

\* every response so far is a transport failure or a well-formed answer
TransportFailuresOnly ==
    /\ \A r \in Delivered : r.status \in {"fail", "ok"}
    /\ \A i \in 1..Len(io.muni) : \A f \in SetOf(io.muni[i].features) : WellFormedFeature(f)
    /\ \A f \in SetOf(io.ta.features) \cup SetOf(io.ta2.features) : WellFormedFeature(f)
    /\ \A el \in SetOf(io.osm.features) : WellFormedElement(el)
    /\ \A r \in SearchesDelivered :
          r.status \in {"fail", "ok", "none"} /\ \A h \in SetOf(r.features) : WellFormedHit(h)

Invoked(name) == \E i \in 1..Len(calls) : calls[i][1] = name

\* the radius the merge of the current pass filters a source to
PassRadius(source) ==
    IF source = "ta" THEN SEARCH_RADIUS_M
    ELSE IF pass = 0
    THEN (IF source = "gov" THEN SEARCH_RADIUS_M + GOV_BASE_EXTRA_M ELSE SEARCH_RADIUS_M)
    ELSE EXPANDED_RADII[pass]

InPassRadius(source, lat, lon) ==
    RoundHaversine(query.lat, query.lon, lat, lon) <= PassRadius(source)

\* the place names the GovMap connector looks up in this call
NamesOfCall == Expand(<< >>, reverse_geocode_names(query.lat, query.lon, io.nom, io.ov))

GovFailed ==
    \/ io.nom.status = "fail"
    \/ /\ io.cached \cap SetOf(NamesOfCall) = {}
       /\ \A r \in SearchesDelivered : r.status \in {"fail", "none"}

\* C2: a transport failure of any connector or of the place resolver stays
\* inside that connector: it contributes no record, the other connectors
\* are still invoked, and the in-radius records of every connector that
\* answered are in the merged list.
C2_FaultIsolation ==
    TransportFailuresOnly =>
      /\ pc # "raised"
      /\ pc \in {"expand", "done"} =>
           /\ Invoked("muni") /\ Invoked("gov") /\ Invoked("osm")
           /\ is_in_tel_aviv(query.lat, query.lon) => Invoked("ta")
           \* failing connectors contribute nothing
           /\ (\A i \in 1..Len(io.muni) : io.muni[i].status \in {"fail", "none"})
                 => shelters_muni = << >>
           /\ GovFailed => shelters_gov_all = << >>
           /\ io.osm.status = "fail" => shelters_osm = << >>
           /\ (io.ta.status = "fail" \/ io.ta2.status = "fail") => shelters_ta = << >>
           \* answered requests contribute their in-radius records
           /\ \A i \in 1..Len(io.muni) : \A f \in SetOf(io.muni[i].features) :
                 InPassRadius("muni", f.y, f.x) => HasRecordAt(merged, "muni", f.y, f.x)
           /\ \A c \in SetOf(NamesOfCall) \ io.cached : \A k \in 1..SEARCH_PREFIXES :
                 \A h \in SetOf(io.search[c][k].features) :
                    InPassRadius("gov", h.Y + ITM_OFFSET_Y, h.X + ITM_OFFSET_X)
                    => HasRecordAt(merged, "gov", h.Y + ITM_OFFSET_Y, h.X + ITM_OFFSET_X)
           /\ \A el \in SetOf(io.osm.features) :
                 HasRecordAt(merged, "osm", ElementLat(el), ElementLon(el))
           /\ \A f \in SetOf(io.ta.features) : HasRecordAt(merged, "ta", f.y, f.x)
           /\ \A f \in SetOf(io.ta2.features) :
                 InPassRadius("ta", f.y, f.x) => HasRecordAt(merged, "ta", f.y, f.x)

\* the municipal endpoints and Overpass fail, GovMap and Tel Aviv answer and
\* their records are merged
C2_Witness ==
    /\ pc = "done"
    /\ TransportFailuresOnly
    /\ \A i \in 1..Len(io.muni) : io.muni[i].status = "fail"
    /\ io.osm.status = "fail"
    /\ io.nom.status = "ok" /\ ~GovFailed
    /\ io.ta.status = "ok"
    /\ \E a, b \in SetOf(merged) : a.source = "gov" /\ b.source = "ta"

\* C5: the lists are merged in the order Tel Aviv, municipal, GovMap, OSM,
\* and of two records of different connectors closer than 50 m (no third
\* merged record within 50 m of either) exactly the one of the
\* higher-priority source is in the deduplicated set.
Merged == pc \in {"expand", "done"}

C5_PriorityMerge ==
    Merged =>
      /\ \A i, j \in 1..Len(merged) :
            i < j => priority(merged[i].source) >= priority(merged[j].source)
      /\ \A a, b \in SetOf(merged) :
            (IsolatedPair(a, b, SetOf(merged))
               /\ priority(a.source) > priority(b.source))
            => (a \in SetOf(all_shelters) /\ b \notin SetOf(all_shelters))

\* a municipal record and a GovMap record 30 m apart went into the merge
\* with nothing else near them
C5_Witness ==
    /\ Merged
    /\ \E a, b \in SetOf(merged) :
          /\ a.source = "muni" /\ b.source = "gov"
          /\ IsolatedPair(a, b, SetOf(merged))
          /\ a \in SetOf(all_shelters)

\* ---- the expansion loop as seen in the connector invocations -----------
ExpansionFetches ==
    SelectSeq(calls, LAMBDA c : c[1] = "osm" /\ c[2] > SEARCH_RADIUS_M)

\* the step invokes a connector at a radius above the base radius
FetchesWider ==
    /\ Len(calls') = Len(calls) + 1
    /\ calls'[Len(calls')][2] > SEARCH_RADIUS_M
    /\ pc = "expand"

\* C7: fewer than 3 records after the base-radius merge lead to a fetch at
\* a larger radius, and no such fetch is made while 3 or more are there.
C7_ExpansionTrigger ==
    /\ [](pc = "done" /\ ExpansionFetches = << >> => Len(all_shelters) >= MIN_RESULTS)
    /\ [][(pc = "expand" /\ pass = 0 /\ Len(all_shelters) < MIN_RESULTS)
             => FetchesWider]_vars
    /\ [][FetchesWider => Len(all_shelters) < MIN_RESULTS]_vars

\* the call ended after the base merge had 2 records and one wider fetch
\* brought the third
C7_Witness ==
    /\ pc = "done"
    /\ Len(ExpansionFetches) = 1
    /\ Len(all_shelters) >= MIN_RESULTS

\* C8: at most two expansion passes, 3000 m then 5000 m, ending once 3
\* records are there or the 5000 m pass is done; the call then ends with a
\* result whatever the connectors returned.
C8_BoundedExpansion ==
    /\ Len(ExpansionFetches) <= 2
    /\ \A i \in 1..Len(ExpansionFetches) : ExpansionFetches[i][2] = EXPANDED_RADII[i]
    /\ pc = "done" =>
          \/ Len(all_shelters) >= MIN_RESULTS
          \/ Len(ExpansionFetches) = 2
    /\ ~(pc = "raised" /\ ExpansionFetches # << >>)

\* C9: the returned list is sorted by distance, has at most MAX_RESULTS
\* records, and holds the nearest records of the final deduplicated set.
C9_Ranking ==
    pc = "done" =>
      /\ Len(result) <= MAX_RESULTS
      /\ \A i, j \in 1..Len(result) : i < j => result[i].distance <= result[j].distance
      /\ SetOf(result) \subseteq SetOf(all_shelters)
      /\ Len(result) = IF Len(all_shelters) < MAX_RESULTS THEN Len(all_shelters)
                       ELSE MAX_RESULTS
      /\ \A r \in SetOf(result) : \A s \in SetOf(all_shelters) \ SetOf(result) :
            r.distance <= s.distance

\* more than MAX_RESULTS records survived, and the merge order was not the
\* distance order
C9_Witness ==
    /\ pc = "done"
    /\ Len(all_shelters) > MAX_RESULTS
    /\ \E i, j \in 1..Len(merged) : i < j /\ merged[i].distance > merged[j].distance
    /\ Len(result) = MAX_RESULTS


\* ---- the cache of the GovMap connector ---------------------------------
\* the record fetch_shelters_govmap returns for the cached data s
GovRecord(s, lat, lon) ==
    [id |-> s.id, lat |-> s.lat, lon |-> s.lon,
     distance |-> RoundHaversine(lat, lon, s.lat, s.lon), source |-> s.source]

\* the records of a cached entry within radius_m of (lat, lon)
CachedInRadius(entry, lat, lon, radius_m) ==
    { GovRecord(entry[i].data, lat, lon) :
        i \in { j \in 1..Len(entry) :
                  HaversineLeq(lat, lon, entry[j].data.lat, entry[j].data.lon, radius_m) } }

\* the candidates of the latest call that were in the cache when it began
CachedCandidates == SetOf(gc_call.names) \cap DOMAIN gc_call.before

\* C11: a call whose candidate list holds a place name that is already in
\* the cache sends no text search for that name, and what it returns of that
\* name's records is exactly the cached records of the name that lie within
\* the caller's radius of the caller's coordinate.
C11_CacheHit ==
    gc_call.n > 0 =>
      \A P \in CachedCandidates :
        /\ P \notin SetOf(gc_call.searched)
        /\ ~gc_call.raised =>
              { r \in SetOf(gc_call.val) : r.id[3] \in Keys(gc_call.before[P]) }
                = CachedInRadius(gc_call.before[P], gc_call.lat, gc_call.lon,
                                 gc_call.radius_m)

\* a later call finds a candidate cached with one record inside its radius
\* and one outside, and has another candidate to search for
C11_Witness ==
    /\ gc_call.n > 1 /\ ~gc_call.raised
    /\ gc_call.searched # << >>
    /\ \E P \in CachedCandidates :
          LET near == CachedInRadius(gc_call.before[P], gc_call.lat, gc_call.lon,
                                     gc_call.radius_m)
          IN near # {} /\ Cardinality(near) < Len(gc_call.before[P])

\* the ObjectIDs of the hits with usable coordinates in the answered searches
\* for city
ValidHits(search, city) ==
    UNION { { h.oid : h \in { g \in SetOf(search[city][k].features) :
                                 Truthy(g.X) /\ Truthy(g.Y) } } :
            k \in { k1 \in 1..SEARCH_PREFIXES : search[city][k1].status = "ok" } }

\* C12: the entry written to the cache for a place name holds every valid
\* hit the text searches for that name returned, whatever the radius and the
\* coordinate of the call that wrote it.
C12_CacheComplete ==
    gc_call.n > 0 =>
      \A i \in 1..Len(gc_call.writes) :
         Keys(gc_call.writes[i][2]) = ValidHits(gc_call.search, gc_call.writes[i][1])

\* C13: an entry once written to the cache is not removed, replaced or
\* changed by a later step of the same call or by a later call.
C13_CacheStable ==
    gc_call.n > 0 =>
      /\ \A c \in DOMAIN gc_call.before :
            c \in DOMAIN _govmap_cache /\ _govmap_cache[c] = gc_call.before[c]
      /\ \A i \in 1..Len(gc_call.writes) :
            /\ gc_call.writes[i][1] \notin DOMAIN gc_call.before
            /\ _govmap_cache[gc_call.writes[i][1]] = gc_call.writes[i][2]


\* ---- two interleaved calls ----------------------------------------------
\* what the call of p does when it runs alone on the empty cache
Alone(p) ==
    fetch_shelters_govmap(rc_local[p].lat, rc_local[p].lon, rc_local[p].radius_m,
                          rc_local[p].nom, NoResp, rc_local[p].search, << >>)

RaceOver == \A p \in ({1, 2}) : rc_pc[p] \in {"done", "raised"}

BaseMergeDone == pc \in {"expand", "done"} /\ pass = 0

FromSource(seq, source) == { r \in SetOf(seq) : r.source = source }

WideCalls ==
    \E i, j \in 1..Len(calls) : /\ calls[i] = << "muni", WIDE_RADIUS_M >>
                                 /\ calls[j] = << "gov", WIDE_RADIUS_M >>

\* C15 as stated: the municipal and the GovMap connector are called at
\* 5000 m, and every record of either in the base-radius merge is within
\* SEARCH_RADIUS_M.
C15_BaseFilter ==
    BaseMergeDone =>
      /\ WideCalls
      /\ \A r \in FromSource(merged, "muni") \cup FromSource(merged, "gov") :
            r.distance <= SEARCH_RADIUS_M

\* C15 amended: the municipal and the GovMap connector are called at 5000 m;
\* the base-radius merge holds the municipal records within SEARCH_RADIUS_M
\* and the GovMap records within SEARCH_RADIUS_M + 1000 m, and no others of
\* the two.
C15_BaseFilterPerSource ==
    BaseMergeDone =>
      /\ WideCalls
      /\ FromSource(merged, "muni")
            = { r \in SetOf(shelters_muni) : r.distance <= SEARCH_RADIUS_M }
      /\ FromSource(merged, "gov")
            = { r \in SetOf(shelters_gov_all) :
                  r.distance <= SEARCH_RADIUS_M + GOV_BASE_EXTRA_M }

\* both filters drop a record, and a GovMap record beyond SEARCH_RADIUS_M
\* is in the merge
C15_Witness ==
    /\ BaseMergeDone
    /\ \E r \in SetOf(shelters_muni) : r.distance > SEARCH_RADIUS_M
    /\ \E r \in SetOf(shelters_gov_all) : r.distance > SEARCH_RADIUS_M + GOV_BASE_EXTRA_M
    /\ \E r \in FromSource(merged, "gov") : r.distance > SEARCH_RADIUS_M


\* ---- connector invocations of one fetch_shelters call -------------------
Count(name) == Cardinality({ i \in 1..Len(calls) : calls[i][1] = name })

\* C16: in one fetch_shelters call the municipal and the GovMap connector
\* are invoked once each and the Tel-Aviv connector at most once; an
\* expansion pass filters the lists already fetched and invokes only the
\* OSM connector, once, so that a call makes 1 to 3 OSM calls.
C16_NoRefetch ==
    /\ Count("muni") = (IF pc = "muni" THEN 0 ELSE 1)
    /\ Count("gov") = (IF pc \in {"muni", "gov"} THEN 0 ELSE 1)
    /\ Count("ta") <= 1
    /\ pc = "ta" => Count("osm") = 1
    /\ pc \in {"expand", "done"} =>
          /\ Count("osm") = 1 + pass
          /\ Count("osm") \in 1..3
          /\ Count("ta") = (IF is_in_tel_aviv(query.lat, query.lon) THEN 1 ELSE 0)
    /\ pc = "raised" => Count("osm") <= 3
    /\ (pc \in {"expand", "done"} /\ pass > 0) =>
          /\ FromSource(merged, "muni")
                = { r \in SetOf(shelters_muni) : r.distance <= EXPANDED_RADII[pass] }
          /\ FromSource(merged, "gov")
                = { r \in SetOf(shelters_gov_all) : r.distance <= EXPANDED_RADII[pass] }
          /\ FromSource(merged, "ta") = SetOf(shelters_ta)

\* a call inside TA_BOUNDS ended after both expansion passes, the second
\* of which brought in a GovMap record of the first fetch
C16_Witness ==
    /\ pc = "done" /\ pass = 2
    /\ Count("osm") = 3 /\ Count("ta") = 1
    /\ \E r \in FromSource(merged, "gov") : r.distance > 3000


\* ---- the bounding boxes of the municipal registry -----------------------
\* (lat, lon) lies in the box widened by 0.05 degrees on each side
InWidenedBox(lat, lon, bbox) ==
    /\ lat >= bbox[1] - BBOX_MARGIN_LAT /\ lat <= bbox[3] + BBOX_MARGIN_LAT
    /\ lon >= bbox[2] - BBOX_MARGIN_LON /\ lon <= bbox[4] + BBOX_MARGIN_LON

\* C17: the municipal connector sends a request to a registry endpoint only
\* if the query point lies in the endpoint's box widened by 0.05 degrees;
\* when no endpoint qualifies it returns the empty list without a request
\* and without an error.
C17_BboxGate ==
    mg_out.run =>
      /\ \A i \in mg_out.requested :
            InWidenedBox(mg_site.lat, mg_site.lon, MUNICIPAL_ARCGIS[i].bbox)
      /\ \A rec \in SetOf(mg_out.val) :
            \E i \in 1..Len(MUNICIPAL_ARCGIS) :
               /\ rec.id[2] = MUNICIPAL_ARCGIS[i].name
               /\ InWidenedBox(mg_site.lat, mg_site.lon, MUNICIPAL_ARCGIS[i].bbox)
      /\ (\A i \in 1..Len(MUNICIPAL_ARCGIS) :
             ~InWidenedBox(mg_site.lat, mg_site.lon, MUNICIPAL_ARCGIS[i].bbox))
          => (mg_out.requested = {} /\ mg_out.val = << >> /\ ~mg_out.raised)

\* a point one metre outside the widened box of one endpoint and inside
\* that of the other: one request sent, one endpoint skipped
C17_Witness ==
    /\ mg_out.run
    /\ mg_site.lat = MUNICIPAL_ARCGIS[1].bbox[3] + BBOX_MARGIN_LAT + 1
    /\ mg_out.requested = {2}
    /\ mg_out.val # << >>


\* ---- the Tel-Aviv connector in fetch_shelters ---------------------------
InTaBounds(q) ==
    /\ q.lat >= TA_BOUNDS.lat_min /\ q.lat <= TA_BOUNDS.lat_max
    /\ q.lon >= TA_BOUNDS.lon_min /\ q.lon <= TA_BOUNDS.lon_max

\* C18: the Tel-Aviv connector is invoked only for a query point within
\* TA_BOUNDS; for a point outside no request goes to the Tel-Aviv endpoint
\* in any pass and no record of source ta is in the result.
C18_TaGate ==
    /\ Invoked("ta") => InTaBounds(query)
    /\ (pc # "off" /\ ~InTaBounds(query)) =>
          /\ io.ta = NoResp /\ io.ta2 = NoResp
          /\ shelters_ta = << >>
          /\ FromSource(merged, "ta") = {}
          /\ FromSource(all_shelters, "ta") = {}
          /\ FromSource(result, "ta") = {}

\* a call outside TA_BOUNDS went through both expansion passes and
\* returned records
C18_Witness ==
    /\ pc = "done" /\ pass = 2
    /\ ~InTaBounds(query)
    /\ result # << >>

\* the places of the well-formed features of a response within radius_m
PlacesWithin(features, radius_m) ==
    { << f.y, f.x >> : f \in { g \in SetOf(features) :
          HaversineLeq(query.lat, query.lon, g.y, g.x, radius_m) } }

\* C19: when the spatial query of the Tel-Aviv connector is answered with no
\* feature, one full-table request is sent and the connector returns exactly
\* its features within SEARCH_RADIUS_M of the query point; when the spatial
\* query is answered with a feature, no full-table request is sent.
C19_FullScan ==
    (Invoked("ta") /\ io.ta.status = "ok") =>
      /\ io.ta.features = << >> =>
            /\ io.ta2 # NoResp
            /\ (io.ta2.status = "ok"
                 /\ \A f \in SetOf(io.ta2.features) : WellFormedFeature(f)) =>
                  /\ { << r.lat, r.lon >> : r \in SetOf(shelters_ta) }
                        = PlacesWithin(io.ta2.features, SEARCH_RADIUS_M)
                  /\ Len(shelters_ta)
                        = Cardinality(PlacesWithin(io.ta2.features, SEARCH_RADIUS_M))
                  /\ \A r \in SetOf(shelters_ta) : r.source = "ta"
      /\ io.ta.features # << >> => io.ta2 = NoResp

\* the full table had a feature beyond the radius and two within it
C19_Witness ==
    /\ Invoked("ta")
    /\ io.ta = Ok(<< >>) /\ io.ta2.status = "ok"
    /\ Len(shelters_ta) = 2 /\ Len(io.ta2.features) = 3

\* ---- the place resolver -------------------------------------------------
\* the answers of Nominatim and of the settlement lookup give no usable name
ResolverUnusable ==
    \/ io.nom.status # "ok"
    \/ /\ \A i \in 1..Len(ADDRESS_KEYS) :
             io.nom.features[ADDRESS_KEYS[i]] = ""
             \/ io.nom.features[ADDRESS_KEYS[i]] \in RegionalLabels
       /\ \/ io.ov.status # "ok"
          \/ \A el \in SetOf(io.ov.features) : el.name = ""

\* with no candidate name fetch_shelters_govmap returns the empty list,
\* sends no text search and leaves the cache as it was
GovSkipped ==
    (Invoked("gov") /\ ResolverUnusable) =>
      /\ shelters_gov_all = << >>
      /\ io.searched = << >> /\ io.writes = << >>
      /\ DOMAIN _govmap_cache = io.cached
      /\ pc # "gov"

\* C20: when the resolver yields no candidate name, fetch_shelters_govmap
\* returns the empty list, sends no text search and writes nothing to the
\* cache, and the municipal, the OSM and (inside TA_BOUNDS) the Tel-Aviv
\* connector are run in that call.
C20_ResolverFailure ==
    /\ GovSkipped
    /\ (Invoked("gov") /\ ResolverUnusable /\ pc \in {"done", "raised"}) =>
          /\ Invoked("muni") /\ Invoked("osm")
          /\ InTaBounds(query) => Invoked("ta")


\* ---- the transformer of pyproj ------------------------------------------
\* C21: without the ITM-to-WGS84 transformer every fetch_shelters_govmap call
\* returns the empty list, sends no reverse-geocode and no text-search
\* request and writes nothing to the cache, and no record with a null
\* latitude or longitude is in the merged set.
C21_GovDisabled ==
    (pc # "off" /\ ~_itm_to_wgs) =>
      /\ shelters_gov_all = << >>
      /\ io.nom = NoResp /\ io.ov = NoResp /\ io.search = NoSearch
      /\ io.searched = << >> /\ io.writes = << >>
      /\ _govmap_cache = << >>
      /\ \A r \in SetOf(merged) \cup SetOf(all_shelters) \cup SetOf(result) :
             r.source # "gov" /\ r.lat # NoneV /\ r.lon # NoneV

\* without the transformer a second call went past the GovMap connector and
\* a call ended with records of the other connectors
C21_Witness ==
    /\ ~_itm_to_wgs
    /\ nqueries = 2 /\ pc = "done" /\ Invoked("gov")
    /\ result # << >>


\* ---- the candidate names ------------------------------------------------
\* C22: the candidate list used for the cache lookup and the text search,
\* after the spelling variants are added, holds no name twice.
C22_NamesDistinct ==
    gc_call.n > 0 =>
      \A i, j \in 1..Len(gc_call.names) :
          i # j => gc_call.names[i] # gc_call.names[j]


\* the answer of Nominatim gives no settlement-tier name: the request failed,
\* or every address key is empty or a regional-council label
NoSettlementName(nom) ==
    \/ nom.status # "ok"
    \/ \A i \in 1..Len(ADDRESS_KEYS) :
           nom.features[ADDRESS_KEYS[i]] = ""
           \/ nom.features[ADDRESS_KEYS[i]] \in RegionalLabels

\* names are the names of up to 3 named place nodes of ov nearest to the
\* query point, nearest first
NearestThree(names, ov) ==
    LET named == { i \in 1..Len(ov.features) : ov.features[i].name # "" }
        d(i) == SqDist(query.lat, query.lon, ov.features[i].lat, ov.features[i].lon)
        k == IF Cardinality(named) < 3 THEN Cardinality(named) ELSE 3
    IN /\ Len(names) = k
       /\ \E idx \in [1..k -> named] :
            /\ \A a, b \in 1..k : a < b => idx[a] # idx[b] /\ d(idx[a]) <= d(idx[b])
            /\ \A a \in 1..k : names[a] = ov.features[idx[a]].name
            /\ \A i \in named : (\A a \in 1..k : idx[a] # i) =>
                   \A a \in 1..k : d(idx[a]) <= d(i)

\* C23: whenever reverse geocoding yields no settlement-tier name (only a
\* regional-council label, nothing, or a failed request),
\* reverse_geocode_names sends the nearest-settlement search and returns up
\* to 3 nearest place names by increasing distance.
C23_ResolverFallback ==
    (Invoked("gov") /\ _itm_to_wgs /\ NoSettlementName(io.nom)) =>
      /\ io.ov # NoResp
      /\ io.ov.status = "ok" =>
            NearestThree(reverse_geocode_names(query.lat, query.lon, io.nom, io.ov), io.ov)


\* ---- record ids ---------------------------------------------------------
\* C24: in the merged candidate set and in the result of a fetch_shelters
\* call no two records carry the same id, and every id begins with the
\* prefix of the record's source.
C24_UniqueIds ==
    \A seq \in {merged, all_shelters, result} :
        /\ \A i, j \in 1..Len(seq) : i # j => seq[i].id # seq[j].id
        /\ \A i \in 1..Len(seq) : seq[i].id[1] = seq[i].source


\* ---- coordinates --------------------------------------------------------
\* a latitude and a longitude that are numbers within 90 and 180 degrees
\* (94200 m to the degree of longitude at the model's latitude)
ValidCoordinates(r) ==
    /\ r.lat # NoneV /\ r.lon # NoneV
    /\ IsNum(r.lat) /\ IsNum(r.lon)
    /\ r.lat <= 90 * ONE_DEGREE /\ r.lon <= 180 * 94200

\* C25: every record a connector returns has a non-null latitude and
\* longitude within 90 and 180 degrees; a feature that fails this is
\* dropped by the parser.
C25_ValidCoordinates ==
    cn_out.run => \A r \in SetOf(cn_out.val) : ValidCoordinates(r)


\* ---- the distance of a GovMap record ------------------------------------
\* d is the distance of (lat1, lon1) and (lat2, lon2) rounded to the metre
RoundedDistance(d, lat1, lon1, lat2, lon2) ==
    LET n == SqDist(lat1, lon1, lat2, lon2)
    IN /\ d >= 0
       /\ d = 0 \/ d * d - d < n
       /\ n <= d * d + d

\* C26: every record fetch_shelters_govmap returns carries the rounded
\* distance from the coordinate of this call, also when it is served from a
\* cache entry a call from another coordinate wrote; the cached records have
\* no distance field and serving them leaves the entries as they were.
C26_DistanceRecomputed ==
    gc_call.n > 0 =>
      /\ \A r \in SetOf(gc_call.val) :
             RoundedDistance(r.distance, gc_call.lat, gc_call.lon, r.lat, r.lon)
      /\ \A city \in DOMAIN _govmap_cache :
             \A i \in 1..Len(_govmap_cache[city]) :
                 "distance" \notin DOMAIN _govmap_cache[city][i].data
      /\ \A city \in DOMAIN gc_call.before :
             _govmap_cache[city] = gc_call.before[city]

\* a call served wholly from entries that the call before, from the other
\* coordinate, wrote, returning a record whose distance from there differs
C26_Witness ==
    /\ gc_call.n = 2
    /\ gc_call.prev = << (SiteTelAviv).lat, (SiteTelAviv).lon >>
    /\ gc_call.lat = ([lat |-> SiteTelAviv.lat + 1500, lon |-> SiteTelAviv.lon]).lat
    /\ gc_call.names # << >> /\ gc_call.searched = << >>
    /\ \E r \in SetOf(gc_call.val) :
          ~RoundedDistance(r.distance, (SiteTelAviv).lat, (SiteTelAviv).lon, r.lat, r.lon)


\* ---- the reply of handle_location ---------------------------------------
\* every connector gave the empty list through both expansion passes
AllExhausted ==
    /\ pc = "done" /\ pass = Len(EXPANDED_RADII)
    /\ shelters_muni = << >> /\ shelters_gov_all = << >>
    /\ shelters_ta = << >> /\ shelters_osm = << >>

\* C27: when every connector contributes the empty list through the full
\* radius expansion, fetch_shelters returns the empty list and
\* handle_location sends the no-shelters message; the search-error message
\* is sent exactly when fetch_shelters raised.
C27_NoResultsOutcome ==
    /\ AllExhausted => result = << >> /\ reply = "no_shelters"
    /\ reply = "search_error" <=> pc = "raised"
    /\ (pc = "done" /\ result = << >>) => reply = "no_shelters"

\* three Overpass requests were made and nothing was found anywhere
C27_Witness ==
    /\ AllExhausted
    /\ Count("osm") = 3 /\ Invoked("gov") /\ Invoked("muni")
    /\ reply = "no_shelters"


\* ---- the distance function ----------------------------------------------
\* the places haversine is applied to when the municipal connector runs at
\* a point: the point, the records found, and the centre of Tel Aviv
Places ==
    { << mg_site.lat, mg_site.lon >>, << SiteTelAviv.lat, SiteTelAviv.lon >> }
    \cup { << r.lat, r.lon >> : r \in SetOf(mg_out.val) }

MuniRecordOf(i, f) ==
    \E r \in SetOf(shelters_muni) :
        /\ r.id[1] = "muni" /\ r.id[2] = MUNICIPAL_ARCGIS[i].name
        /\ r.lat = f.y /\ r.lon = f.x

\* C29: in fetch_shelters_municipal a transport failure, a timeout or an
\* error payload of one relevant endpoint does not keep the other relevant
\* endpoints from being queried, and the records of the endpoints that
\* answered are returned.
C29_EndpointIsolation ==
    Invoked("muni") =>
      \A i \in Relevant(query.lat, query.lon) :
          /\ io.muni[i] # NoResp
          /\ (io.muni[i].status = "ok"
               /\ \A f \in SetOf(io.muni[i].features) : WellFormedFeature(f)) =>
                \A f \in SetOf(io.muni[i].features) :
                    HaversineLeq(query.lat, query.lon, f.y, f.x, WIDE_RADIUS_M)
                        => MuniRecordOf(i, f)

\* the first relevant endpoint failed or answered with an error payload, the
\* second was queried all the same and its records are in the list
C29_Witness ==
    /\ Invoked("muni")
    /\ Relevant(query.lat, query.lon) = {1, 2}
    /\ io.muni[1].status \in {"fail", "error"}
    /\ io.muni[2].status = "ok"
    /\ Len(shelters_muni) = 2


\* ---- the spacing of the result ------------------------------------------
\* two records at least 50 m apart
Apart(a, b) ==
    SqDist(a.lat, a.lon, b.lat, b.lon) >= DEDUP_THRESHOLD_M * DEDUP_THRESHOLD_M

\* C30: any two distinct records of the list fetch_shelters returns are at
\* least 50 m apart: the merged list is in non-increasing priority order,
\* so every record of the deduplicated set is a merged record at least 50 m
\* from the others, and every merged record left out is within 50 m of a
\* kept one of at least its priority.
C30_ResultSpread ==
    Merged =>
      /\ \A seq \in {all_shelters, result} :
             \A i, j \in 1..Len(seq) : i # j => Apart(seq[i], seq[j])
      /\ SetOf(result) \subseteq SetOf(all_shelters)
      /\ SetOf(all_shelters) \subseteq SetOf(merged)
      /\ \A r \in SetOf(merged) \ SetOf(all_shelters) :
             \E k \in SetOf(all_shelters) :
                 ~Apart(r, k) /\ priority(k.source) >= priority(r.source)

\* a call returned three or more records after duplicates were dropped
C30_Witness ==
    /\ pc = "done"
    /\ Len(result) >= 3
    /\ Len(merged) > Len(all_shelters)


\* ---- the expansion passes -----------------------------------------------
\* C31: every radius-expansion pass of fetch_shelters yields a deduplicated
\* set with at least as many records as the set it replaces.
C31_WideningMonotone ==
    [][pass' = pass + 1 => Len(all_shelters') >= Len(all_shelters)]_vars

\* ---- the cache against a cache-less reference ----------------------------
\* what a connector without a cache returns for the latest call: every
\* candidate name searched afresh, the hits united by ObjectID, those within
\* the radius of the call kept
RECURSIVE FreshHits(_, _)
FreshHits(all, names) ==
    IF names = << >> THEN all
    ELSE FreshHits(MergeNewKeys(all, GovCity(<< >>, 1, gc_call.search[Head(names)],
                                             << >>).val),
                   Tail(names))

Reference ==
    CachedInRadius(FreshHits(<< >>, gc_call.names), gc_call.lat, gc_call.lon,
                   gc_call.radius_m)

\* C32: over a series of calls with the same upstream data and no failure,
\* each call returns the same set of records as a connector without a cache
\* that searches for every candidate name afresh.
C32_CacheTransparent ==
    (gc_call.n > 0 /\ gc_call.clean) => SetOf(gc_call.val) = Reference

\* C33: when every keyword search for a place name failed in one call, the
\* next call that has the name among its candidates searches for it again.
C33_FailureNotCached ==
    [][\A P \in Cities :
          ( /\ gc_call.n > 0
            /\ P \in SetOf(gc_call.searched)
            /\ \A k \in 1..SEARCH_PREFIXES : gc_call.search[P][k].status # "ok"
            /\ P \in SetOf(gc_call'.names) )
          => P \in SetOf(gc_call'.searched)]_vars

\* ---- deduplication keeps every facility ----------------------------------
\* C34: every record of the input of deduplicate_shelters is within 50 m of
\* a record of the output whose source priority is at least its own.
C34_NoFacilityLost ==
    DedupDone =>
      \A s \in SetOf(dd_in) :
         \E e \in SetOf(dd_out) :
            /\ Near(s, e, DEDUP_THRESHOLD_M)
            /\ priority(e.source) >= priority(s.source)

\* ---- check-ins and reviews made from the shelter card --------------------
\* the check-in button of the card of the i-th record has just been handled
CheckinPressed(i) ==
    /\ Len(sent.on) > 2 /\ sent.on[1] = "checkin"
    /\ SubSeq(sent.on, 2, Len(sent.on) - 1) = user_data.shelters[i].id

\* C35: when the user has pressed the check-in button of a record of the
\* session's result list, the table holds a check-in of the user at the
\* shelter with exactly that id, whatever the format of the id.
C35_CheckinFromList ==
    \A i \in 1..Len(user_data.shelters) :
       CheckinPressed(i) =>
          \E r \in checkins : r.user_id = 1 /\ r.shelter_id = user_data.shelters[i].id

\* C36: the review saved at the end of the conversation started from a
\* record's review button is among the reviews read for that record's id and
\* among those of no other record.
C36_ReviewRoundTrip ==
    sent.text = "review_saved" =>
       \A i \in 1..Len(user_data.shelters) :
          (reviews[Len(reviews)]
              \in SetOf(get_reviews(reviews, user_data.shelters[i].id, 3)))
            <=> i = user_data.rv_from

\* C37: a /cancel sent while the review conversation is on ends the
\* conversation, and no review is saved.
C37_ReviewCancel ==
    [][(review_conv /\ sent'.on = << "/cancel" >>)
          => conversation' = "END" /\ reviews' = reviews]_vars

\* ---- the table of check-ins ----------------------------------------------
RowsOf(rows, u) == { r \in rows : r.user_id = u }

\* C38: the table holds at most one row per user; a check-in leaves the user
\* with one row, of the new shelter and the time of the call; a check-out
\* leaves the user with none.
C38_OneCheckin ==
    /\ [](\A u \in {1, 2} : Cardinality(RowsOf(checkins, u)) <= 1)
    /\ [][\A u \in {1, 2} :
            /\ DoCheckin(u) =>
                  \E i \in 1..Len(BotResults) :
                     RowsOf(checkins', u) = { [user_id |-> u,
                                               shelter_id |-> BotResults[i].id,
                                               checked_in_at |-> now] }
            /\ cb_checkout(u) => RowsOf(checkins', u) = {}]_vars

\* a user who had a row checks in again at a later hour, the other user's
\* row in the table
C38_Witness ==
    /\ sent.on = << "checkin" >> /\ sent.text = "moved"
    /\ now > 0
    /\ \E r \in RowsOf(checkins, sent.user) : r.checked_in_at = now
    /\ RowsOf(checkins, 3 - sent.user) # {}

\* the age in hours of a row
Age(r) == now - r.checked_in_at

\* C39: get_buddies never returns the asking user nor a check-in made more
\* than CHECKIN_TTL_H hours ago; get_my_checkin returns nothing for a user
\* whose check-in is older than that; the passing of time deletes no row.
C39_CheckinExpiry ==
    /\ [](\A u \in {1, 2} :
            /\ \A i \in 1..Len(BotResults) :
                  \A r \in get_buddies(checkins, BotResults[i].id, u, now) :
                     r.user_id # u /\ Age(r) <= CHECKIN_TTL_H
            /\ (\E r \in RowsOf(checkins, u) : Age(r) > CHECKIN_TTL_H)
                  => get_my_checkin(checkins, u, now) = {})
    /\ [][now' # now => checkins' = checkins]_vars

\* /status of a user whose row is three hours old is answered "not checked
\* in", the row still in the table; the other user is there since an hour
C39_Witness ==
    /\ sent.on = << "/status" >> /\ sent.text = "not_checked"
    /\ \E r \in RowsOf(checkins, sent.user) :
          /\ Age(r) > CHECKIN_TTL_H
          /\ \E o \in checkins : /\ o.user_id # sent.user
                                 /\ o.shelter_id = r.shelter_id
                                 /\ Age(o) = 1

============================================================================
